---- MODULE Spec2Model ----
(***************************************************************************)
(* Agent orchestration layer of pm_net: the two AgentProvider              *)
(* implementations (MockAgentProvider, OpenClawProvider) with their        *)
(* background task execution units, and the AgentService singleton.        *)
(*                                                                         *)
(* Scheduling is asyncio's: a coroutine runs without interruption up to    *)
(* its next await on real I/O or a timer, so every handler without such an *)
(* await is one atomic action, and a handler with one is cut there.        *)
(*                                                                         *)
(* Python objects are shared by reference.  An execution unit keeps the    *)
(* TaskStatus (and, in the mock provider, the AgentStatus) object it       *)
(* looked up.  When the dict entry is replaced, deleted or cleared, the    *)
(* unit still writes to its object, but that object is no longer part of   *)
(* the provider's collection: the unit's tref / aref flag records whether  *)
(* its object is still the one the dict stores.                            *)
(*                                                                         *)
(* A unit is a bound method, so its self stays the instance that created   *)
(* it.  Once AgentService.initialize has put another provider in the place *)
(* of that instance, the variables describe the new one; of the dropped    *)
(* instance the unit keeps, in tref, aref and cref, what it finds there:   *)
(* whether _tasks holds its task, whether _agents holds its agent, and     *)
(* whether _client is set.                                                 *)
(***************************************************************************)
EXTENDS Integers, Sequences, FiniteSets, TLC

VARIABLES
    kind,         \* class of the provider instance: "mock" or "openclaw"
    started,      \* initialize() has been called on the instance
    initialized,  \* AgentProvider._initialized
    client,       \* OpenClawProvider._client is not None
    agents,       \* self._agents, an insertion-ordered dict, as a sequence of AgentStatus
    tasks,        \* self._tasks, an insertion-ordered dict, as a sequence of TaskStatus
    units,        \* the coroutines started by asyncio.create_task, in creation order
    last,         \* the most recent API call and what it returned or raised, or
                  \* the outcome of the POST an execution unit has just made
    now,          \* the value datetime.utcnow() returns
    svc_instance, \* AgentService._instance is not None
    svc_provider, \* AgentService._instance._provider: 0 for None, else an index of provs
    provs,        \* every provider instance AgentService.initialize has constructed
    calls,        \* the AgentService.initialize / shutdown coroutines, in call order
    reply,        \* the data the most recent call returned, when it was a read-only
                  \* query (health_check, list_tasks, get_system_metrics); for
                  \* a resync of OpenClawProvider, what the gateway answered
    pend,         \* the API coroutines of OpenClawProvider that are suspended in
                  \* a call to the gateway, in call order
    inst,         \* how many providers AgentService.initialize has put in the
                  \* place of the first one: the number of the instance that
                  \* the variables above describe
    held          \* AgentService._provider is the instance the variables above
                  \* describe: no AgentService.shutdown() has cleared it

\* What no method of a provider writes.
svcVars == <<svc_instance, svc_provider, provs, calls, inst, held>>
vars == <<kind, started, initialized, client, agents, tasks, units, last, now,
          svc_instance, svc_provider, provs, calls, reply, pend, inst, held>>

(***************************************************************************)
(* Bounds of the model.                                                    *)
(***************************************************************************)
MaxTasks == 2
MaxTime == 3
MaxCalls == 3
MaxLiveTasks == 1
MaxLimit == 1
MaxPending == 2

None == "None"

\* TaskRequest.timeout_seconds of the requests the callers submit.
TimeoutSeconds == 1

\* await asyncio.sleep(2)
MockDelay == 2

MockDefaultIds == <<"agent-planning", "agent-execution", "agent-verification">>

OpenClawDefaultIds == <<"main", "planning", "execution">>

DefaultIds(k) == IF k = "mock" THEN MockDefaultIds ELSE OpenClawDefaultIds

\* The agent ids callers pass to create_agent, delete_agent and submit_task:
\* the first default agent of the provider.
AgentIds(k) == {DefaultIds(k)[1]}

\* A task_id or agent_id a caller leaves out: None, or the empty string.
NotGiven == {None, ""}

\* uuid4().hex[:8]: a fresh id for every submission.
GenId(n) == "task-" \o ToString(n)

\* The task ids callers name in cancel_task and supply in TaskRequest.task_id:
\* the id of the first task.
CallerTaskIds == {GenId(1)}

\* What an httpx call can do: a success status code, another status code, or a
\* transport exception (connection refused, timeout, closed client).
HttpOutcomes == {"ok", "status", "raise"}

\* The agent lists a 200 response of GET /api/agents/list may carry.
RemoteRosters == {<<>>, <<"main">>}

TerminalStatuses == {"completed", "failed", "cancelled"}

NoCall == [op |-> "none", arg |-> None, ret |-> None]

Call(op, a, r) == [op |-> op, arg |-> a, ret |-> r]

(***************************************************************************)
(* Records.  A timestamp of 0 is None.                                     *)
(***************************************************************************)
NewAgentStatus(id) ==
    [agent_id |-> id, status |-> "idle", current_task |-> None,
     tasks_completed |-> 0, tasks_failed |-> 0]

\* Faulty variant of NewTaskStatus: submit_task awaits the start of the
\* execution instead of scheduling it, so the record it returns is running.
NewTaskStatusStarted(tid, aid) ==
    [task_id |-> tid, agent_id |-> aid, status |-> "running", created_at |-> now,
     started_at |-> now, completed_at |-> 0, result |-> None, error |-> None]

NewTaskStatus(tid, aid) ==
    [task_id |-> tid, agent_id |-> aid, status |-> "queued", created_at |-> now,
     started_at |-> 0, completed_at |-> 0, result |-> None, error |-> None]

\* The coroutine object create_task schedules: its arguments, and the local
\* variables it has not bound yet.  bound is the agent_id submit_task gave the
\* TaskStatus it stored for this request; seen is the number of coroutines
\* that had been created when this one took its first step, and begun the
\* time of that step.
\* cls is the class of the provider whose submit_task created the coroutine,
\* self the number of that instance, and own tells that this instance is the
\* one the variables describe: the coroutine is a bound method, so self
\* stays the instance that created it.
NewUnit(tid, aid, b) ==
    [pc |-> "scheduled", task_id |-> tid, agent_id |-> aid, bound |-> b,
     seen |-> 0, begun |-> 0, tref |-> FALSE, aref |-> FALSE, cref |-> FALSE,
     own |-> TRUE, self |-> inst, cls |-> kind]

\* The event loop runs its ready queue in order: a coroutine takes its first
\* step after every coroutine created before it has taken its own.
CanStart(us, u) ==
    /\ us[u].pc = "scheduled"
    /\ \A v \in 1..(u - 1) : us[v].pc # "scheduled"

\* The wake-up of a suspended coroutine is queued behind the first step of
\* every coroutine that was already created when it suspended.
CanResume(us, u) ==
    /\ us[u].pc = "awaiting"
    /\ \A v \in 1..us[u].seen : us[v].pc # "scheduled"

(***************************************************************************)
(* Python dict operations on the two collections.                          *)
(***************************************************************************)
HasAgent(ags, id) == \E i \in DOMAIN ags : ags[i].agent_id = id

\* self._agents[id]
AgentOf(ags, id) == ags[CHOOSE i \in DOMAIN ags : ags[i].agent_id = id]

\* Faulty variant of PutAgent: a record already stored under the id is kept.
PutAgentIfAbsent(ags, rec) ==
    IF HasAgent(ags, rec.agent_id) THEN ags ELSE Append(ags, rec)

\* self._agents[id] = rec: a present key keeps its position.
PutAgent(ags, rec) ==
    IF HasAgent(ags, rec.agent_id)
    THEN [i \in DOMAIN ags |-> IF ags[i].agent_id = rec.agent_id THEN rec ELSE ags[i]]
    ELSE Append(ags, rec)

DelAgent(ags, id) == SelectSeq(ags, LAMBDA a : a.agent_id # id)

HasTask(ts, tid) == \E i \in DOMAIN ts : ts[i].task_id = tid

\* self._tasks[tid]
TaskOf(ts, tid) == ts[CHOOSE i \in DOMAIN ts : ts[i].task_id = tid]

\* self._tasks[tid] = rec: a present key keeps its position.
PutTask(ts, rec) ==
    IF HasTask(ts, rec.task_id)
    THEN [i \in DOMAIN ts |-> IF ts[i].task_id = rec.task_id THEN rec ELSE ts[i]]
    ELSE Append(ts, rec)

\* The roster with the entry of agent id rewritten to rec, when there is one.
WithAgent(ags, id, rec) ==
    [i \in DOMAIN ags |-> IF ags[i].agent_id = id THEN rec ELSE ags[i]]

\* The task collection with the entry of task tid rewritten to rec.
WithTask(ts, tid, rec) ==
    [i \in DOMAIN ts |-> IF ts[i].task_id = tid THEN rec ELSE ts[i]]

\* task_id in self._tasks, as unit u finds it at its first step.
FindsTask(u) ==
    IF units[u].own THEN HasTask(tasks, units[u].task_id) ELSE units[u].tref

\* self._tasks[task_id].agent_id
TaskAgent(u) ==
    IF units[u].own THEN TaskOf(tasks, units[u].task_id).agent_id ELSE units[u].agent_id

\* aid in self._agents, as unit u finds it.
FindsAgent(u, aid) ==
    IF units[u].own THEN HasAgent(agents, aid) ELSE units[u].aref

\* self._client is set, as unit u finds it.
FindsClient(u) == IF units[u].own THEN client ELSE units[u].cref

\* aclose() of the httpx client of instance i has been called and has not
\* returned.  httpx marks a client closed when aclose() is entered: from
\* then on every request on it raises RuntimeError before it is sent, and a
\* further aclose() returns without awaiting anything.
Closing(i) == \E p \in DOMAIN pend : pend[p].pc = "aclose" /\ pend[p].target = i

\* What self._client.get/post/delete raises before anything is sent: the
\* attribute lookup fails on None, and a closed client refuses the request.
SendRaises(cl, closing) ==
    IF ~cl THEN "AttributeError"
    ELSE IF closing THEN "RuntimeError"
    ELSE None

\* The POST of unit u is sent: the provider the unit belongs to has a client
\* and no shutdown() is closing it.
Sends(u) == SendRaises(FindsClient(u), Closing(units[u].self)) = None

\* The TaskStatus unit u holds is the one the task collection stores.
HoldsTask(u) == units[u].own /\ units[u].tref

\* The AgentStatus unit u holds is the one the roster stores.
HoldsAgent(u) == units[u].own /\ units[u].aref

\* self._agents no longer stores, under id, the object it stored before.
DetachAgent(us, id) ==
    [u \in DOMAIN us |->
        IF us[u].own /\ us[u].agent_id = id THEN [us[u] EXCEPT !.aref = FALSE] ELSE us[u]]

\* self._tasks no longer stores, under tid, the object it stored before.
DetachTask(us, tid) ==
    [u \in DOMAIN us |->
        IF us[u].own /\ us[u].task_id = tid THEN [us[u] EXCEPT !.tref = FALSE] ELSE us[u]]

\* shutdown() of instance i has cleared both dicts, after self._client = None.
DetachInstance(us, i) ==
    [u \in DOMAIN us |->
        IF us[u].self = i
        THEN [us[u] EXCEPT !.tref = FALSE, !.aref = FALSE, !.cref = FALSE] ELSE us[u]]

\* Both dicts of the instance the variables describe are cleared.
DetachAll(us) ==
    [u \in DOMAIN us |->
        IF us[u].own THEN [us[u] EXCEPT !.tref = FALSE, !.aref = FALSE] ELSE us[u]]

(***************************************************************************)
(* Writes of the execution units and of cancel_task to single records.     *)
(***************************************************************************)
\* agent.status = "busy"; agent.current_task = task_id
AgentBusy(a, tid) == [a EXCEPT !.status = "busy", !.current_task = tid]

\* Faulty variant of AgentIdle: current_task is not cleared.
AgentIdleKeepsTask(a) == [a EXCEPT !.status = "idle"]

\* agent.status = "idle"; agent.current_task = None
AgentIdle(a) == [a EXCEPT !.status = "idle", !.current_task = None]

\* task_status.status = "running"; task_status.started_at = utcnow()
TaskRunning(t) == [t EXCEPT !.status = "running", !.started_at = now]

\* status = "completed"; completed_at = utcnow(); result = {...}
TaskCompleted(t) ==
    [t EXCEPT !.status = "completed", !.completed_at = now, !.result = "result"]

\* status = "failed"; completed_at = utcnow(); error = str(e)
TaskFailed(t) ==
    [t EXCEPT !.status = "failed", !.completed_at = now, !.error = "error"]

\* MockAgentProvider.cancel_task: only the status is written.
MockCancelled(t) == [t EXCEPT !.status = "cancelled"]

\* OpenClawProvider.cancel_task: status and completed_at are written.
OpenClawCancelled(t) == [t EXCEPT !.status = "cancelled", !.completed_at = now]

\* Faulty variant of IdleAgents: the status is not looked at.
IdleAgentsAnyStatus(ags) == ags

\* [a for a in self._agents.values() if a.status == "idle"]
IdleAgents(ags) == SelectSeq(ags, LAMBDA a : a.status = "idle")

\* Python's truth test of an optional string: None and "" are false.
Truthy(x) == x \notin NotGiven

\* MockAgentProvider.submit_task: the agent a request is bound to.  `if not
\* agent_id` routes a request without agent id to the first idle agent and
\* leaves the id as given when no agent is idle.
MockRoute(ags, aid) ==
    IF Truthy(aid) THEN aid
    ELSE IF Len(IdleAgents(ags)) > 0 THEN IdleAgents(ags)[1].agent_id
    ELSE aid

\* OpenClawProvider.submit_task: the agent a request is bound to.
OpenClawRoute(ags, aid) ==
    IF Truthy(aid) THEN aid
    ELSE IF Len(IdleAgents(ags)) > 0 THEN IdleAgents(ags)[1].agent_id
    ELSE "main"

\* task.task_id or f"task-{uuid4().hex[:8]}"
SubmitId(tid) == IF Truthy(tid) THEN tid ELSE GenId(Len(units) + 1)

\* Faulty variant of CanCancel: the status of the task is not looked at.
CanCancelAny(ts, tid) == HasTask(ts, tid)

\* cancel_task returns True exactly when it writes.
CanCancel(ts, tid) ==
    /\ HasTask(ts, tid)
    /\ TaskOf(ts, tid).status \in {"queued", "running"}

\* No query has returned data yet, or the most recent call was no query.
NoReply == [op |-> "None"]

\* A provider step that is no query and neither starts nor resumes a call to
\* the gateway: the service is not involved, and no query data is returned.
svcUnchanged == UNCHANGED <<svcVars, pend>> /\ reply' = NoReply

RECURSIVE PutAll(_, _)
\* for id in ids: self._agents[id] = AgentStatus(status="idle", ...)
PutAll(ags, ids) ==
    IF ids = <<>> THEN ags
    ELSE PutAll(PutAgent(ags, NewAgentStatus(Head(ids))), Tail(ids))

(***************************************************************************)
(* MockAgentProvider.  The callers reach a provider through AgentService,  *)
(* which initializes an instance once; no operation but health_check reads *)
(* _initialized, so every operation runs on an instance in any state.      *)
(***************************************************************************)
MockInitialize ==
    /\ kind = "mock"
    /\ ~started
    /\ started' = TRUE
    /\ initialized' = TRUE
    /\ agents' = PutAll(agents, MockDefaultIds)
    /\ units' = [u \in DOMAIN units |->
                    IF units[u].own /\ \E i \in 1..3 : units[u].agent_id = MockDefaultIds[i]
                    THEN [units[u] EXCEPT !.aref = FALSE] ELSE units[u]]
    /\ last' = Call("initialize", None, "ok")
    /\ UNCHANGED <<kind, client, tasks, now>>
    /\ svcUnchanged

MockShutdown ==
    /\ kind = "mock"
    /\ agents' = <<>>
    /\ tasks' = <<>>
    /\ initialized' = FALSE
    /\ units' = DetachAll(units)
    /\ last' = Call("shutdown", None, "ok")
    /\ UNCHANGED <<kind, started, client, now>>
    /\ svcUnchanged

MockListAgents ==
    /\ kind = "mock"
    /\ last' = Call("list_agents", None, "ok")
    /\ UNCHANGED <<kind, started, initialized, client, agents, tasks, units, now>>
    /\ svcUnchanged

MockGetAgentStatus(id) ==
    /\ kind = "mock"
    /\ last' = Call("get_agent_status", id, IF HasAgent(agents, id) THEN "ok" ELSE "ValueError")
    /\ UNCHANGED <<kind, started, initialized, client, agents, tasks, units, now>>
    /\ svcUnchanged

MockGetTaskStatus(tid) ==
    /\ kind = "mock"
    /\ last' = Call("get_task_status", tid, IF HasTask(tasks, tid) THEN "ok" ELSE "ValueError")
    /\ UNCHANGED <<kind, started, initialized, client, agents, tasks, units, now>>
    /\ svcUnchanged

MockCreateAgent(id) ==
    /\ kind = "mock"
    /\ agents' = PutAgent(agents, NewAgentStatus(id))
    /\ units' = DetachAgent(units, id)
    /\ last' = Call("create_agent", id, "ok")
    /\ UNCHANGED <<kind, started, initialized, client, tasks, now>>
    /\ svcUnchanged

MockDeleteAgent(id) ==
    /\ kind = "mock"
    /\ agents' = DelAgent(agents, id)
    /\ units' = DetachAgent(units, id)
    /\ last' = Call("delete_agent", id, IF HasAgent(agents, id) THEN "True" ELSE "False")
    /\ UNCHANGED <<kind, started, initialized, client, tasks, now>>
    /\ svcUnchanged

MockSubmitTask(tid, aid) ==
    /\ kind = "mock"
    /\ Len(units) < MaxTasks
    /\ tasks' = PutTask(tasks, NewTaskStatus(SubmitId(tid), MockRoute(agents, aid)))
    /\ units' = Append(DetachTask(units, SubmitId(tid)), NewUnit(SubmitId(tid), None, MockRoute(agents, aid)))
    /\ last' = Call("submit_task", aid, SubmitId(tid))
    /\ UNCHANGED <<kind, started, initialized, client, agents, now>>
    /\ svcUnchanged

\* _execute_task up to "await asyncio.sleep(2)", or to its end when the task
\* has no agent in the roster; self._tasks[task_id] raises KeyError when the
\* id is gone.
MockExecStart(u) ==
    /\ units[u].cls = "mock"
    /\ CanStart(units, u)
    /\ last' = NoCall
    /\ IF ~FindsTask(u)
       THEN /\ units' = [units EXCEPT ![u].pc = "crashed"]
            /\ UNCHANGED <<agents, tasks>>
       ELSE LET tid == units[u].task_id
                aid == TaskAgent(u)
            IN IF Truthy(aid) /\ FindsAgent(u, aid)
               THEN /\ agents' = IF units[u].own
                                 THEN WithAgent(agents, aid, AgentBusy(AgentOf(agents, aid), tid))
                                 ELSE agents
                    /\ tasks' = IF units[u].own
                                THEN WithTask(tasks, tid, TaskRunning(TaskOf(tasks, tid)))
                                ELSE tasks
                    /\ units' = [units EXCEPT ![u].pc = "awaiting", ![u].agent_id = aid,
                                                 ![u].seen = Len(units), ![u].begun = now,
                                                 ![u].tref = TRUE, ![u].aref = TRUE]
               ELSE /\ units' = [units EXCEPT ![u].pc = "done"]
                    /\ UNCHANGED <<agents, tasks>>
    /\ UNCHANGED <<kind, started, initialized, client, now>>
    /\ svcUnchanged

\* TaskRequest.input_data of the u-th request: the callers give every request
\* data of its own.
InputData(u) == "data-" \o ToString(u)

\* The mock unit's closing writes to its TaskStatus: the result carries
\* task.input_data of the request the unit was created for.
MockCompleted(t, u) == [TaskCompleted(t) EXCEPT !.result = InputData(u)]

\* Faulty variant of MockReleased: the unit counts its task as failed.
MockReleasedAsFailed(a) == [AgentIdle(a) EXCEPT !.tasks_failed = @ + 1]

\* The agent record after the unit's closing writes.
MockReleased(a) == [AgentIdle(a) EXCEPT !.tasks_completed = @ + 1]

\* _execute_task after the sleep.
MockExecFinish(u) ==
    /\ units[u].cls = "mock"
    /\ CanResume(units, u)
    /\ last' = NoCall
    /\ tasks' = IF HoldsTask(u) THEN WithTask(tasks, units[u].task_id, MockCompleted(TaskOf(tasks, units[u].task_id), u)) ELSE tasks
    /\ agents' = IF HoldsAgent(u) THEN WithAgent(agents, units[u].agent_id, MockReleased(AgentOf(agents, units[u].agent_id))) ELSE agents
    /\ units' = [units EXCEPT ![u].pc = "done", ![u].tref = FALSE, ![u].aref = FALSE]
    /\ UNCHANGED <<kind, started, initialized, client, now>>
    /\ svcUnchanged

MockCancelTask(tid) ==
    /\ kind = "mock"
    /\ IF CanCancel(tasks, tid)
       THEN /\ tasks' = WithTask(tasks, tid, MockCancelled(TaskOf(tasks, tid)))
            /\ last' = Call("cancel_task", tid, "True")
       ELSE /\ tasks' = tasks
            /\ last' = Call("cancel_task", tid, "False")
    /\ UNCHANGED <<kind, started, initialized, client, agents, units, now>>
    /\ svcUnchanged

(***************************************************************************)
(* OpenClawProvider.  Its units look the agent up in self._agents at every *)
(* write, so they keep no AgentStatus object.                              *)
(***************************************************************************)
\* What GET /api/agents/list can do: raise, answer with a status other than
\* 200, or answer 200 with a list of agents.
ListResponses ==
    {<<"raise", <<>>>>, <<"status", <<>>>>} \cup {<<"ok", r>> : r \in RemoteRosters}

\* create_agent as _create_default_agents calls it: the agent is stored on a
\* 200/201 answer; an exception is printed and dropped.
PutDefault(ags, i, out) ==
    IF out = "ok" THEN PutAgent(ags, NewAgentStatus(OpenClawDefaultIds[i])) ELSE ags

\* _create_default_agents run from its first POST to its last with nothing in
\* between, couts[i] being what the i-th POST does.
CreateDefaultAgents(ags, couts) ==
    PutDefault(PutDefault(PutDefault(ags, 1, couts[1]), 2, couts[2]), 3, couts[3])

\* The roster after the merge loop of _sync_agents.
SyncMerged(ags, resp) ==
    IF resp[1] = "ok" THEN PutAll(ags, resp[2]) ELSE ags

\* The exception _sync_agents raises once its GET has ended, if any: what
\* the GET raises is no httpx.HTTPStatusError, so it is not caught.
SyncRaises(resp) == IF resp[1] = "raise" THEN "TransportError" ELSE None

\* A health probe that is taken for passed although it failed.
ProbeIgnored(health) == None

\* The exception the health probe of initialize raises, if any: the GET
\* raises, or raise_for_status() rejects the answer; either is wrapped into
\* a ConnectionError.
ProbeRaises(health) ==
    IF health # "ok" THEN "ConnectionError" ELSE None

\* An API coroutine suspended in a call to the gateway: the operation, its
\* argument, the await it is suspended in, and the number of the instance
\* whose method is suspended.
Pending(op, a, pc) == [op |-> op, arg |-> a, pc |-> pc, target |-> inst]

\* The suspended coroutines once coroutine p has returned or raised.
Without(ps, p) == [i \in 1..(Len(ps) - 1) |-> IF i < p THEN ps[i] ELSE ps[i + 1]]

\* The argument a call is recorded with: initialize is recorded with what
\* the gateway did with the probe.
ArgOf(c) == IF c.op = "initialize" THEN "ok" ELSE c.arg

\* What the caller of _sync_agents does once the resync has returned, the
\* roster then being ags: initialize and list_agents return, and
\* get_agent_status looks the id up again.
SyncDone(c, ags) ==
    IF c.op = "get_agent_status" /\ ~HasAgent(ags, c.arg)
    THEN Call(c.op, c.arg, "ValueError")
    ELSE Call(c.op, ArgOf(c), "ok")

\* initialize up to the await of GET /health.
OpenClawInitialize ==
    /\ kind = "openclaw"
    /\ ~started
    /\ Len(pend) < MaxPending
    /\ started' = TRUE
    /\ client' = TRUE
    /\ pend' = Append(pend, Pending("initialize", None, "health"))
    /\ last' = NoCall
    /\ reply' = NoReply
    /\ UNCHANGED <<kind, initialized, agents, tasks, units, now>>
    /\ UNCHANGED svcVars

\* GET /health of initialize has answered or raised.  After a good answer
\* _sync_agents starts its GET; self._client.get raises at once when a
\* shutdown() has taken the client away or is closing it.
OpenClawInitializeAfterProbe(p) ==
    /\ pend[p].op = "initialize"
    /\ pend[p].pc = "health"
    /\ \E health \in HttpOutcomes :
         IF ProbeRaises(health) # None
         THEN /\ last' = Call("initialize", health, ProbeRaises(health))
              /\ pend' = Without(pend, p)
         ELSE IF SendRaises(client, Closing(inst)) # None
         THEN /\ last' = Call("initialize", health, SendRaises(client, Closing(inst)))
              /\ pend' = Without(pend, p)
         ELSE /\ last' = NoCall
              /\ pend' = [pend EXCEPT ![p].pc = "list"]
    /\ reply' = NoReply
    /\ UNCHANGED <<kind, started, initialized, client, agents, tasks, units, now>>
    /\ UNCHANGED svcVars

\* Faulty variant of ShutdownTail: the task collection is not cleared.
ShutdownTailKeepsTasks(i) ==
    IF i = inst
    THEN /\ client' = FALSE
         /\ agents' = <<>>
         /\ initialized' = FALSE
         /\ units' = [u \in DOMAIN units |->
                         IF units[u].self = i
                         THEN [units[u] EXCEPT !.aref = FALSE, !.cref = FALSE] ELSE units[u]]
         /\ UNCHANGED tasks
    ELSE /\ units' = DetachInstance(units, i)
         /\ UNCHANGED <<client, agents, tasks, initialized>>

\* shutdown() of instance i from self._client = None on: the client is
\* dropped, both dicts are cleared and _initialized is reset.  It writes the
\* variables when i is the instance they describe.
ShutdownTail(i) ==
    IF i = inst
    THEN /\ client' = FALSE
         /\ agents' = <<>>
         /\ tasks' = <<>>
         /\ initialized' = FALSE
         /\ units' = DetachInstance(units, i)
    ELSE /\ units' = DetachInstance(units, i)
         /\ UNCHANGED <<client, agents, tasks, initialized>>

\* await self._client.aclose() suspends its caller: the client is set, no
\* earlier aclose() has closed it, and its connection pool holds a connection
\* to close (pooled: the pool is httpx's, filled by what the gateway has
\* answered).
AcloseSuspends(cl, closing, pooled) == cl /\ ~closing /\ pooled

\* shutdown: when aclose() suspends, the coroutine waits in it before
\* anything is cleared; otherwise shutdown runs to its end in one step.
OpenClawShutdown(pooled) ==
    /\ kind = "openclaw"
    /\ IF AcloseSuspends(client, Closing(inst), pooled)
       THEN /\ Len(pend) < MaxPending
            /\ pend' = Append(pend, Pending("shutdown", None, "aclose"))
            /\ last' = NoCall
            /\ UNCHANGED <<client, agents, tasks, initialized, units>>
       ELSE /\ ShutdownTail(inst)
            /\ last' = Call("shutdown", None, "ok")
            /\ UNCHANGED pend
    /\ reply' = NoReply
    /\ UNCHANGED <<kind, started, now>>
    /\ UNCHANGED svcVars

OpenClawShutdownAfterClose(p) ==
    /\ pend[p].op = "shutdown"
    /\ pend[p].pc = "aclose"
    /\ ShutdownTail(pend[p].target)
    /\ pend' = Without(pend, p)
    /\ last' = Call("shutdown", None, "ok")
    /\ reply' = NoReply
    /\ UNCHANGED <<kind, started, now>>
    /\ UNCHANGED svcVars

\* The answer of the gateway to GET /api/agents/list: how the GET ended and
\* the agent ids a 200 answer reported.
SyncReply(resp) == [op |-> "list_agents", answer |-> resp[1], reported |-> resp[2]]

\* list_agents up to the await of the GET of _sync_agents.
OpenClawListAgents ==
    /\ kind = "openclaw"
    /\ IF SendRaises(client, Closing(inst)) # None
       THEN /\ last' = Call("list_agents", None, SendRaises(client, Closing(inst)))
            /\ UNCHANGED pend
       ELSE /\ Len(pend) < MaxPending
            /\ pend' = Append(pend, Pending("list_agents", None, "list"))
            /\ last' = NoCall
    /\ reply' = NoReply
    /\ UNCHANGED <<kind, started, initialized, client, agents, tasks, units, now>>
    /\ UNCHANGED svcVars

\* get_agent_status resyncs the roster when the id is not in it.
OpenClawGetAgentStatus(id) ==
    /\ kind = "openclaw"
    /\ IF HasAgent(agents, id)
       THEN /\ last' = Call("get_agent_status", id, "ok")
            /\ UNCHANGED pend
       ELSE IF SendRaises(client, Closing(inst)) # None
       THEN /\ last' = Call("get_agent_status", id, SendRaises(client, Closing(inst)))
            /\ UNCHANGED pend
       ELSE /\ Len(pend) < MaxPending
            /\ pend' = Append(pend, Pending("get_agent_status", id, "list"))
            /\ last' = NoCall
    /\ reply' = NoReply
    /\ UNCHANGED <<kind, started, initialized, client, agents, tasks, units, now>>
    /\ UNCHANGED svcVars

\* The GET of _sync_agents has answered or raised, in initialize, list_agents
\* or get_agent_status.  An exception ends the call.  Otherwise the reported
\* agents are merged in; when the roster is then empty the first POST of
\* _create_default_agents is made, or, without a client that takes requests,
\* all three create_agent calls raise at once and are dropped.
OpenClawAfterList(p) ==
    /\ pend[p].pc = "list"
    /\ \E resp \in ListResponses :
         /\ reply' = SyncReply(resp)
         /\ IF SyncRaises(resp) # None
            THEN /\ last' = Call(pend[p].op, ArgOf(pend[p]), SyncRaises(resp))
                 /\ pend' = Without(pend, p)
                 /\ UNCHANGED <<agents, initialized>>
            ELSE IF SyncMerged(agents, resp) = <<>> /\ SendRaises(client, Closing(inst)) = None
            THEN /\ last' = NoCall
                 /\ pend' = [pend EXCEPT ![p].pc = "post1"]
                 /\ UNCHANGED <<agents, initialized>>
            ELSE /\ agents' = SyncMerged(agents, resp)
                 /\ last' = SyncDone(pend[p], SyncMerged(agents, resp))
                 /\ initialized' = (initialized \/ pend[p].op = "initialize")
                 /\ pend' = Without(pend, p)
    /\ UNCHANGED <<kind, started, client, tasks, units, now>>
    /\ UNCHANGED svcVars

\* The await a coroutine is suspended in during the i-th default POST.
DefaultPost(i) == "post" \o ToString(i)

\* The i-th POST of _create_default_agents has answered or raised.  The next
\* POST follows; without a client that takes requests the remaining
\* create_agent calls raise at once and are dropped.
OpenClawAfterDefaultPost(p, i) ==
    /\ pend[p].pc = DefaultPost(i)
    /\ \E out \in HttpOutcomes :
         /\ agents' = PutDefault(agents, i, out)
         /\ IF i < 3 /\ SendRaises(client, Closing(inst)) = None
            THEN /\ last' = NoCall
                 /\ pend' = [pend EXCEPT ![p].pc = DefaultPost(i + 1)]
                 /\ UNCHANGED initialized
            ELSE /\ last' = SyncDone(pend[p], PutDefault(agents, i, out))
                 /\ initialized' = (initialized \/ pend[p].op = "initialize")
                 /\ pend' = Without(pend, p)
    /\ reply' = NoReply
    /\ UNCHANGED <<kind, started, client, tasks, units, now>>
    /\ UNCHANGED svcVars

OpenClawGetTaskStatus(tid) ==
    /\ kind = "openclaw"
    /\ last' = Call("get_task_status", tid, IF HasTask(tasks, tid) THEN "ok" ELSE "ValueError")
    /\ UNCHANGED <<kind, started, initialized, client, agents, tasks, units, now>>
    /\ svcUnchanged

\* What create_agent raises once its POST has ended, if anything: a
\* RuntimeError on a status other than 200/201, or the transport exception.
CreateRaises(out) ==
    IF out = "status" THEN "RuntimeError"
    ELSE IF out = "raise" THEN "TransportError"
    ELSE None

\* create_agent up to the await of its POST.
OpenClawCreateAgent(id) ==
    /\ kind = "openclaw"
    /\ IF SendRaises(client, Closing(inst)) # None
       THEN /\ last' = Call("create_agent", id, SendRaises(client, Closing(inst)))
            /\ UNCHANGED pend
       ELSE /\ Len(pend) < MaxPending
            /\ pend' = Append(pend, Pending("create_agent", id, "post"))
            /\ last' = NoCall
    /\ reply' = NoReply
    /\ UNCHANGED <<kind, started, initialized, client, agents, tasks, units, now>>
    /\ UNCHANGED svcVars

\* The POST of create_agent has answered or raised.
OpenClawCreateAgentAfterPost(p) ==
    /\ pend[p].op = "create_agent"
    /\ pend[p].pc = "post"
    /\ \E out \in HttpOutcomes :
         IF CreateRaises(out) = None
         THEN /\ agents' = PutAgent(agents, NewAgentStatus(pend[p].arg))
              /\ last' = Call("create_agent", pend[p].arg, "ok")
         ELSE /\ last' = Call("create_agent", pend[p].arg, CreateRaises(out))
              /\ UNCHANGED agents
    /\ pend' = Without(pend, p)
    /\ reply' = NoReply
    /\ UNCHANGED <<kind, started, initialized, client, tasks, units, now>>
    /\ UNCHANGED svcVars

\* What delete_agent returns or raises once its DELETE has ended.
DeleteReturns(out) ==
    IF out = "ok" THEN "True"
    ELSE IF out = "status" THEN "False"
    ELSE "TransportError"

\* delete_agent up to the await of its DELETE.
OpenClawDeleteAgent(id) ==
    /\ kind = "openclaw"
    /\ IF SendRaises(client, Closing(inst)) # None
       THEN /\ last' = Call("delete_agent", id, SendRaises(client, Closing(inst)))
            /\ UNCHANGED pend
       ELSE /\ Len(pend) < MaxPending
            /\ pend' = Append(pend, Pending("delete_agent", id, "delete"))
            /\ last' = NoCall
    /\ reply' = NoReply
    /\ UNCHANGED <<kind, started, initialized, client, agents, tasks, units, now>>
    /\ UNCHANGED svcVars

\* The DELETE of delete_agent has answered or raised.
OpenClawDeleteAgentAfterDelete(p) ==
    /\ pend[p].op = "delete_agent"
    /\ pend[p].pc = "delete"
    /\ \E out \in HttpOutcomes :
         /\ agents' = IF DeleteReturns(out) = "True"
                      THEN DelAgent(agents, pend[p].arg) ELSE agents
         /\ last' = Call("delete_agent", pend[p].arg, DeleteReturns(out))
    /\ pend' = Without(pend, p)
    /\ reply' = NoReply
    /\ UNCHANGED <<kind, started, initialized, client, tasks, units, now>>
    /\ UNCHANGED svcVars

OpenClawSubmitTask(tid, aid) ==
    /\ kind = "openclaw"
    /\ Len(units) < MaxTasks
    /\ tasks' = PutTask(tasks, NewTaskStatus(SubmitId(tid), OpenClawRoute(agents, aid)))
    /\ units' = Append(DetachTask(units, SubmitId(tid)),
                       NewUnit(SubmitId(tid), OpenClawRoute(agents, aid), OpenClawRoute(agents, aid)))
    /\ last' = Call("submit_task", aid, SubmitId(tid))
    /\ UNCHANGED <<kind, started, initialized, client, agents, now>>
    /\ svcUnchanged

\* Faulty variant of OpenClawAfterFailure: the failure is not counted.
OpenClawAfterFailureUncounted(a) == AgentIdle(a)

\* The agent record after the except branch and the finally block.
OpenClawAfterFailure(a) == [AgentIdle(a) EXCEPT !.tasks_failed = @ + 1]

\* The agent record after the success branch and the finally block.
OpenClawAfterSuccess(a) == [AgentIdle(a) EXCEPT !.tasks_completed = @ + 1]

\* _execute_openclaw_task up to the await of the POST. A missing task id
\* raises KeyError before the try block; a POST that is not sent (no client,
\* or a client that shutdown() is closing) raises inside it, so the except
\* branch and the finally block run at once.
OpenClawExecStart(u) ==
    /\ units[u].cls = "openclaw"
    /\ CanStart(units, u)
    /\ last' = IF FindsTask(u) /\ ~Sends(u)
               THEN Call("post", ToString(u), "raise") ELSE NoCall
    /\ IF ~FindsTask(u)
       THEN /\ units' = [units EXCEPT ![u].pc = "crashed"]
            /\ UNCHANGED <<agents, tasks>>
       ELSE LET tid == units[u].task_id
                aid == units[u].agent_id
            IN IF Sends(u)
               THEN /\ tasks' = IF units[u].own
                                THEN WithTask(tasks, tid, TaskRunning(TaskOf(tasks, tid)))
                                ELSE tasks
                    /\ agents' = IF units[u].own /\ HasAgent(agents, aid)
                                 THEN WithAgent(agents, aid, AgentBusy(AgentOf(agents, aid), tid))
                                 ELSE agents
                    /\ units' = [units EXCEPT ![u].pc = "awaiting", ![u].seen = Len(units),
                                                 ![u].begun = now, ![u].tref = TRUE]
               ELSE /\ tasks' = IF units[u].own
                                THEN WithTask(tasks, tid, TaskFailed(TaskRunning(TaskOf(tasks, tid))))
                                ELSE tasks
                    /\ agents' = IF units[u].own /\ HasAgent(agents, aid)
                                 THEN WithAgent(agents, aid, OpenClawAfterFailure(AgentOf(agents, aid)))
                                 ELSE agents
                    /\ units' = [units EXCEPT ![u].pc = "done"]
    /\ UNCHANGED <<kind, started, initialized, client, now>>
    /\ svcUnchanged

\* _execute_openclaw_task once the POST has answered 200, answered another
\* status, or raised.
OpenClawExecFinish(u) ==
    /\ units[u].cls = "openclaw"
    /\ CanResume(units, u)
    /\ \E out \in HttpOutcomes :
         /\ last' = Call("post", ToString(u), out)
         /\ IF out = "ok"
            THEN /\ tasks' = IF HoldsTask(u)
                             THEN WithTask(tasks, units[u].task_id,
                                           TaskCompleted(TaskOf(tasks, units[u].task_id)))
                             ELSE tasks
                 /\ agents' = IF units[u].own /\ HasAgent(agents, units[u].agent_id)
                              THEN WithAgent(agents, units[u].agent_id,
                                             OpenClawAfterSuccess(AgentOf(agents, units[u].agent_id)))
                              ELSE agents
            ELSE /\ tasks' = IF HoldsTask(u)
                             THEN WithTask(tasks, units[u].task_id,
                                           TaskFailed(TaskOf(tasks, units[u].task_id)))
                             ELSE tasks
                 /\ agents' = IF units[u].own /\ HasAgent(agents, units[u].agent_id)
                              THEN WithAgent(agents, units[u].agent_id,
                                             OpenClawAfterFailure(AgentOf(agents, units[u].agent_id)))
                              ELSE agents
    /\ units' = [units EXCEPT ![u].pc = "done", ![u].tref = FALSE]
    /\ UNCHANGED <<kind, started, initialized, client, now>>
    /\ svcUnchanged

OpenClawCancelTask(tid) ==
    /\ kind = "openclaw"
    /\ IF CanCancel(tasks, tid)
       THEN /\ tasks' = WithTask(tasks, tid, OpenClawCancelled(TaskOf(tasks, tid)))
            /\ last' = Call("cancel_task", tid, "True")
       ELSE /\ tasks' = tasks
            /\ last' = Call("cancel_task", tid, "False")
    /\ UNCHANGED <<kind, started, initialized, client, agents, units, now>>
    /\ svcUnchanged

\* Time passes.
(***************************************************************************)
(* list_tasks and get_system_metrics: read-only queries over the task      *)
(* collection.  A timestamp of 0 is None.                                  *)
(***************************************************************************)
\* Faulty variant of ListMatches: the status filter is not applied.
ListMatchesAnyStatus(ts, aid, st) ==
    SelectSeq(ts, LAMBDA t : ~Truthy(aid) \/ t.agent_id = aid)

\* `if agent_id:` and `if status:` with their list comprehensions; an
\* argument that is None (or empty) filters nothing.
ListMatches(ts, aid, st) ==
    SelectSeq(ts, LAMBDA t : /\ ~Truthy(aid) \/ t.agent_id = aid
                             /\ ~Truthy(st) \/ t.status = st)

\* tasks[:limit]
Truncate(ts, limit) ==
    IF limit >= 0
    THEN SubSeq(ts, 1, IF limit < Len(ts) THEN limit ELSE Len(ts))
    ELSE SubSeq(ts, 1, IF Len(ts) + limit > 0 THEN Len(ts) + limit ELSE 0)

\* t goes behind every record of the sorted list that is not older than it.
InsertNewestFirst(sorted, t) ==
    LET keep == SelectSeq(sorted, LAMBDA s : s.created_at >= t.created_at)
        rest == SelectSeq(sorted, LAMBDA s : s.created_at < t.created_at)
    IN keep \o <<t>> \o rest

RECURSIVE NewestFirst(_)
\* tasks.sort(key=lambda t: t.created_at, reverse=True): a stable sort,
\* records of equal created_at keep their order.
NewestFirst(ts) ==
    IF ts = <<>> THEN <<>>
    ELSE InsertNewestFirst(NewestFirst(SubSeq(ts, 1, Len(ts) - 1)), ts[Len(ts)])

MockListTasks(ts, aid, st, limit) == Truncate(ListMatches(ts, aid, st), limit)

OpenClawListTasks(ts, aid, st, limit) ==
    Truncate(NewestFirst(ListMatches(ts, aid, st)), limit)

ListReply(aid, st, limit, res) ==
    [op |-> "list_tasks", agent_id |-> aid, status |-> st, limit |-> limit, tasks |-> res]

MockListTasksCall(aid, st, limit) ==
    /\ kind = "mock"
    /\ reply' = ListReply(aid, st, limit, MockListTasks(tasks, aid, st, limit))
    /\ last' = Call("list_tasks", None, "ok")
    /\ UNCHANGED <<kind, started, initialized, client, agents, tasks, units, now>>
    /\ UNCHANGED <<svcVars, pend>>

OpenClawListTasksCall(aid, st, limit) ==
    /\ kind = "openclaw"
    /\ reply' = ListReply(aid, st, limit, OpenClawListTasks(tasks, aid, st, limit))
    /\ last' = Call("list_tasks", None, "ok")
    /\ UNCHANGED <<kind, started, initialized, client, agents, tasks, units, now>>
    /\ UNCHANGED <<svcVars, pend>>

\* [t for t in tasks if t.status == "completed" and t.started_at and t.completed_at]
TimedTasks(ts) ==
    SelectSeq(ts, LAMBDA t : t.status = "completed" /\ t.started_at # 0 /\ t.completed_at # 0)

RECURSIVE TotalSeconds(_)
\* sum((t.completed_at - t.started_at).total_seconds() for t in completed)
TotalSeconds(ts) ==
    IF ts = <<>> THEN 0
    ELSE (Head(ts).completed_at - Head(ts).started_at) + TotalSeconds(Tail(ts))

\* sum(1 for t in tasks if t.status == st)
CountStatus(ts, st) == Len(SelectSeq(ts, LAMBDA t : t.status = st))

\* The SystemMetrics either provider returns.  average_task_time_seconds is
\* the quotient time_total / time_count, and 0.0 when time_count is 0.
Metrics(ags, ts) ==
    [op |-> "get_system_metrics",
     total_agents |-> Len(ags),
     idle_agents |-> Len(IdleAgents(ags)),
     busy_agents |-> Len(SelectSeq(ags, LAMBDA a : a.status = "busy")),
     total_tasks_queued |-> CountStatus(ts, "queued"),
     total_tasks_running |-> CountStatus(ts, "running"),
     total_tasks_completed |-> CountStatus(ts, "completed"),
     total_tasks_failed |-> CountStatus(ts, "failed"),
     time_total |-> TotalSeconds(TimedTasks(ts)),
     time_count |-> Len(TimedTasks(ts))]

MockGetSystemMetrics ==
    /\ kind = "mock"
    /\ reply' = Metrics(agents, tasks)
    /\ last' = Call("get_system_metrics", None, "ok")
    /\ UNCHANGED <<kind, started, initialized, client, agents, tasks, units, now>>
    /\ UNCHANGED <<svcVars, pend>>

OpenClawGetSystemMetrics ==
    /\ kind = "openclaw"
    /\ reply' = Metrics(agents, tasks)
    /\ last' = Call("get_system_metrics", None, "ok")
    /\ UNCHANGED <<kind, started, initialized, client, agents, tasks, units, now>>
    /\ UNCHANGED <<svcVars, pend>>

(***************************************************************************)
(* health_check.  It reads the provider and, in OpenClawProvider, probes   *)
(* the gateway; it is callable in every state of the provider.             *)
(***************************************************************************)
HealthReply(st, err) == [op |-> "health_check", status |-> st, error |-> err]

\* "healthy" if self._initialized else "not_initialized"
MockHealth(init) ==
    HealthReply(IF init THEN "healthy" ELSE "not_initialized", None)

\* The summary of OpenClawProvider.health_check, out being how GET /health
\* ended (no GET is made without a client): an exception, of the transport
\* or of a client that refuses the request, gives the summary of the except
\* branch, with str(e) under "error".
OpenClawHealth(init, cl, out) ==
    IF cl /\ out = "raise"
    THEN HealthReply("unhealthy", "TransportError")
    ELSE IF cl /\ out = "RuntimeError"
    THEN HealthReply("unhealthy", "RuntimeError")
    ELSE HealthReply(IF init /\ cl /\ out = "ok" THEN "healthy" ELSE "degraded", None)

MockHealthCheck ==
    /\ kind = "mock"
    /\ reply' = MockHealth(initialized)
    /\ last' = Call("health_check", None, "ok")
    /\ UNCHANGED <<kind, started, initialized, client, agents, tasks, units, now>>
    /\ UNCHANGED <<svcVars, pend>>

\* health_check up to the await of GET /health; without a client no GET is
\* made, and a client that shutdown() is closing raises from the GET at
\* once, into the except branch.
OpenClawHealthCheck ==
    /\ kind = "openclaw"
    /\ IF SendRaises(client, Closing(inst)) = None
       THEN /\ Len(pend) < MaxPending
            /\ pend' = Append(pend, Pending("health_check", None, "health"))
            /\ last' = NoCall
            /\ reply' = NoReply
       ELSE /\ reply' = OpenClawHealth(initialized, client, SendRaises(client, Closing(inst)))
            /\ last' = Call("health_check", None, "ok")
            /\ UNCHANGED pend
    /\ UNCHANGED <<kind, started, initialized, client, agents, tasks, units, now>>
    /\ UNCHANGED svcVars

\* GET /health of health_check has answered or raised: the summary is built
\* from the provider as it is now.
OpenClawHealthCheckAfterProbe(p) ==
    /\ pend[p].op = "health_check"
    /\ pend[p].pc = "health"
    /\ \E out \in HttpOutcomes :
         /\ reply' = OpenClawHealth(initialized, TRUE, out)
         /\ last' = Call("health_check", out, "ok")
    /\ pend' = Without(pend, p)
    /\ UNCHANGED <<kind, started, initialized, client, agents, tasks, units, now>>
    /\ UNCHANGED svcVars

Tick ==
    /\ now < MaxTime
    /\ now' = now + 1
    /\ last' = NoCall
    /\ UNCHANGED <<kind, started, initialized, client, agents, tasks, units>>
    /\ svcUnchanged

(***************************************************************************)
(* A provider instance under its callers and its own execution units.      *)
(***************************************************************************)
\* The callers of an OpenClawProvider start a call that can suspend, or
\* submit a request, while the coroutines created so far and the suspended
\* calls are fewer than MaxTasks.
Room == Len(units) + Len(pend) < MaxTasks

Init ==
    /\ kind \in {"mock", "openclaw"}
    /\ started = FALSE
    /\ initialized = FALSE
    /\ client = FALSE
    /\ agents = <<>>
    /\ tasks = <<>>
    /\ units = <<>>
    /\ last = NoCall
    /\ now = 1
    /\ svc_instance = FALSE
    /\ svc_provider = 0
    /\ provs = <<>>
    /\ calls = <<>>
    /\ reply = NoReply
    /\ pend = <<>>
    /\ inst = 0
    /\ held = TRUE

Next ==
    \/ MockInitialize
    \/ MockShutdown
    \/ MockListAgents
    \/ \E id \in AgentIds("mock") : MockGetAgentStatus(id)
    \/ \E tid \in CallerTaskIds : MockGetTaskStatus(tid)
    \/ \E id \in AgentIds("mock") : MockCreateAgent(id)
    \/ \E id \in AgentIds("mock") : MockDeleteAgent(id)
    \/ \E tid \in CallerTaskIds \cup NotGiven : \E aid \in AgentIds("mock") \cup NotGiven :
         MockSubmitTask(tid, aid)
    \/ \E u \in DOMAIN units : MockExecStart(u)
    \/ \E u \in DOMAIN units : MockExecFinish(u)
    \/ \E tid \in CallerTaskIds : MockCancelTask(tid)
    \/ MockHealthCheck
    \/ Room /\ OpenClawInitialize
    \/ \E p \in DOMAIN pend : OpenClawInitializeAfterProbe(p)
    \/ \E p \in DOMAIN pend : OpenClawAfterList(p)
    \/ \E p \in DOMAIN pend : \E i \in 1..3 : OpenClawAfterDefaultPost(p, i)
    \/ \E p \in DOMAIN pend : OpenClawShutdownAfterClose(p)
    \/ \E p \in DOMAIN pend : OpenClawCreateAgentAfterPost(p)
    \/ \E p \in DOMAIN pend : OpenClawDeleteAgentAfterDelete(p)
    \/ \E p \in DOMAIN pend : OpenClawHealthCheckAfterProbe(p)
    \/ \E pooled \in BOOLEAN : Room /\ OpenClawShutdown(pooled)
    \/ Room /\ OpenClawListAgents
    \/ Room /\ OpenClawHealthCheck
    \/ \E id \in AgentIds("openclaw") : Room /\ OpenClawGetAgentStatus(id)
    \/ \E tid \in CallerTaskIds : OpenClawGetTaskStatus(tid)
    \/ \E id \in AgentIds("openclaw") : Room /\ OpenClawCreateAgent(id)
    \/ \E id \in AgentIds("openclaw") : Room /\ OpenClawDeleteAgent(id)
    \/ \E tid \in CallerTaskIds \cup NotGiven : \E aid \in AgentIds("openclaw") \cup NotGiven :
         Room /\ OpenClawSubmitTask(tid, aid)
    \/ \E u \in DOMAIN units : OpenClawExecStart(u)
    \/ \E u \in DOMAIN units : OpenClawExecFinish(u)
    \/ \E tid \in CallerTaskIds : OpenClawCancelTask(tid)

Spec == Init /\ [][Next]_vars

\* The operations that write the provider, without the read-only queries.
NextCore ==
    \/ MockInitialize
    \/ MockShutdown
    \/ \E id \in AgentIds("mock") : MockCreateAgent(id)
    \/ \E id \in AgentIds("mock") : MockDeleteAgent(id)
    \/ \E tid \in CallerTaskIds \cup NotGiven : \E aid \in AgentIds("mock") \cup NotGiven :
         MockSubmitTask(tid, aid)
    \/ \E u \in DOMAIN units : MockExecStart(u)
    \/ \E u \in DOMAIN units : MockExecFinish(u)
    \/ \E tid \in CallerTaskIds : MockCancelTask(tid)
    \/ Room /\ OpenClawInitialize
    \/ \E p \in DOMAIN pend : OpenClawInitializeAfterProbe(p)
    \/ \E p \in DOMAIN pend : OpenClawAfterList(p)
    \/ \E p \in DOMAIN pend : \E i \in 1..3 : OpenClawAfterDefaultPost(p, i)
    \/ \E p \in DOMAIN pend : OpenClawShutdownAfterClose(p)
    \/ \E p \in DOMAIN pend : OpenClawCreateAgentAfterPost(p)
    \/ \E p \in DOMAIN pend : OpenClawDeleteAgentAfterDelete(p)
    \/ \E pooled \in BOOLEAN : Room /\ OpenClawShutdown(pooled)
    \/ Room /\ OpenClawListAgents
    \/ \E id \in AgentIds("openclaw") : Room /\ OpenClawCreateAgent(id)
    \/ \E id \in AgentIds("openclaw") : Room /\ OpenClawDeleteAgent(id)
    \/ \E tid \in CallerTaskIds \cup NotGiven : \E aid \in AgentIds("openclaw") \cup NotGiven :
         Room /\ OpenClawSubmitTask(tid, aid)
    \/ \E u \in DOMAIN units : OpenClawExecStart(u)
    \/ \E u \in DOMAIN units : OpenClawExecFinish(u)
    \/ \E tid \in CallerTaskIds : OpenClawCancelTask(tid)

SpecCore == Init /\ [][NextCore]_vars

\* A step of some execution unit of a MockAgentProvider.
MockUnitStep == \E u \in DOMAIN units : MockExecStart(u) \/ MockExecFinish(u)

\* The event loop runs every ready coroutine and the timer of
\* asyncio.sleep(2) fires.  A unit takes at most two steps and some unit can
\* step while one is unfinished, so fairness to MockUnitStep lets every unit
\* of a MockAgentProvider run to its end.
MockUnitsRun == WF_vars(MockUnitStep)

\* The first step of some execution unit of an OpenClawProvider.
OpenClawUnitStart == \E u \in DOMAIN units : OpenClawExecStart(u)

\* The event loop runs every ready coroutine, so a scheduled unit takes its
\* first step.  Nothing in the provider ends a POST the gateway leaves
\* unanswered: asyncio applies no deadline to the unit, and the timeout httpx
\* is given bounds single waits only.  No fairness is assumed of the end of
\* a POST.
OpenClawUnitsStart == WF_vars(OpenClawUnitStart)

\* A provider instance in time.  The timer of asyncio.sleep(MockDelay) fires
\* no earlier than MockDelay after the unit began.  The POST of an OpenClaw
\* unit is given task.timeout_seconds as the timeout of httpx, which bounds
\* each wait for the gateway and not the POST as a whole: the POST can end at
\* any time, with an answer or with an exception.
MockTimerFired(u) == now >= units[u].begun + MockDelay

NextTimed ==
    \/ MockInitialize
    \/ MockShutdown
    \/ MockListAgents
    \/ \E id \in AgentIds("mock") : MockGetAgentStatus(id)
    \/ \E tid \in CallerTaskIds : MockGetTaskStatus(tid)
    \/ \E id \in AgentIds("mock") : MockCreateAgent(id)
    \/ \E id \in AgentIds("mock") : MockDeleteAgent(id)
    \/ \E tid \in CallerTaskIds \cup {None} : \E aid \in AgentIds("mock") \cup {None} :
         Len(units) < MaxLiveTasks /\ MockSubmitTask(tid, aid)
    \/ \E u \in DOMAIN units : MockExecStart(u)
    \/ \E u \in DOMAIN units : MockTimerFired(u) /\ MockExecFinish(u)
    \/ \E tid \in CallerTaskIds : MockCancelTask(tid)
    \/ Room /\ OpenClawInitialize
    \/ \E p \in DOMAIN pend : OpenClawInitializeAfterProbe(p)
    \/ \E p \in DOMAIN pend : OpenClawAfterList(p)
    \/ \E p \in DOMAIN pend : \E i \in 1..3 : OpenClawAfterDefaultPost(p, i)
    \/ \E p \in DOMAIN pend : OpenClawShutdownAfterClose(p)
    \/ \E p \in DOMAIN pend : OpenClawCreateAgentAfterPost(p)
    \/ \E p \in DOMAIN pend : OpenClawDeleteAgentAfterDelete(p)
    \/ \E pooled \in BOOLEAN : Room /\ OpenClawShutdown(pooled)
    \/ Room /\ OpenClawListAgents
    \/ \E id \in AgentIds("openclaw") : Room /\ OpenClawGetAgentStatus(id)
    \/ \E tid \in CallerTaskIds : OpenClawGetTaskStatus(tid)
    \/ \E id \in AgentIds("openclaw") : Room /\ OpenClawCreateAgent(id)
    \/ \E id \in AgentIds("openclaw") : Room /\ OpenClawDeleteAgent(id)
    \/ \E tid \in CallerTaskIds \cup {None} : \E aid \in AgentIds("openclaw") \cup {None} :
         Room /\ Len(units) < MaxLiveTasks /\ OpenClawSubmitTask(tid, aid)
    \/ \E u \in DOMAIN units : OpenClawExecStart(u)
    \/ \E u \in DOMAIN units : OpenClawExecFinish(u)
    \/ \E tid \in CallerTaskIds : OpenClawCancelTask(tid)
    \/ Tick

SpecTimed == Init /\ [][NextTimed]_vars

\* A provider instance in time under callers that submit at most
\* MaxLiveTasks requests, cancel and query.  list_tasks is called with no
\* agent or one of the first two default agents, with no status or a status,
\* and with a limit up to MaxLimit.
ListAgentArgs(k) == {None, DefaultIds(k)[1], DefaultIds(k)[2]}

ListStatusArgs == {None, "completed"}

NextQuery ==
    \/ MockInitialize
    \/ \E aid \in AgentIds("mock") \cup {None} :
         Len(units) < MaxLiveTasks /\ MockSubmitTask(None, aid)
    \/ \E u \in DOMAIN units : MockExecStart(u)
    \/ \E u \in DOMAIN units : MockTimerFired(u) /\ MockExecFinish(u)
    \/ \E tid \in CallerTaskIds : MockCancelTask(tid)
    \/ \E aid \in ListAgentArgs("mock") : \E st \in ListStatusArgs :
         \E limit \in 0..MaxLimit : MockListTasksCall(aid, st, limit)
    \/ MockGetSystemMetrics
    \/ Room /\ OpenClawInitialize
    \/ \E p \in DOMAIN pend : OpenClawInitializeAfterProbe(p)
    \/ \E p \in DOMAIN pend : OpenClawAfterList(p)
    \/ \E p \in DOMAIN pend : \E i \in 1..3 : OpenClawAfterDefaultPost(p, i)
    \/ \E aid \in AgentIds("openclaw") \cup {None} :
         Room /\ Len(units) < MaxLiveTasks /\ OpenClawSubmitTask(None, aid)
    \/ \E u \in DOMAIN units : OpenClawExecStart(u)
    \/ \E u \in DOMAIN units : OpenClawExecFinish(u)
    \/ \E tid \in CallerTaskIds : OpenClawCancelTask(tid)
    \/ \E aid \in ListAgentArgs("openclaw") : \E st \in ListStatusArgs :
         \E limit \in 0..MaxLimit : OpenClawListTasksCall(aid, st, limit)
    \/ OpenClawGetSystemMetrics
    \/ Tick

SpecQuery == Init /\ [][NextQuery]_vars

\* A provider instance under callers that submit requests (an
\* OpenClawProvider is given at most MaxLiveTasks), cancel them and call
\* list_tasks.
NextList ==
    \/ MockInitialize
    \/ \E aid \in AgentIds("mock") \cup {None} : MockSubmitTask(None, aid)
    \/ \E u \in DOMAIN units : MockExecStart(u)
    \/ \E u \in DOMAIN units : MockExecFinish(u)
    \/ \E tid \in CallerTaskIds : MockCancelTask(tid)
    \/ \E aid \in ListAgentArgs("mock") : \E st \in ListStatusArgs :
         \E limit \in 0..MaxLimit : MockListTasksCall(aid, st, limit)
    \/ Room /\ OpenClawInitialize
    \/ \E p \in DOMAIN pend : OpenClawInitializeAfterProbe(p)
    \/ \E p \in DOMAIN pend : OpenClawAfterList(p)
    \/ \E p \in DOMAIN pend : \E i \in 1..3 : OpenClawAfterDefaultPost(p, i)
    \/ \E aid \in AgentIds("openclaw") \cup {None} :
         Room /\ Len(units) < MaxLiveTasks /\ OpenClawSubmitTask(None, aid)
    \/ \E u \in DOMAIN units : OpenClawExecStart(u)
    \/ \E u \in DOMAIN units : OpenClawExecFinish(u)
    \/ \E tid \in CallerTaskIds : OpenClawCancelTask(tid)
    \/ \E aid \in ListAgentArgs("openclaw") : \E st \in ListStatusArgs :
         \E limit \in 0..MaxLimit : OpenClawListTasksCall(aid, st, limit)

SpecList == Init /\ [][NextList]_vars

\* A MockAgentProvider instance alone, under a running event loop.
InitMock == Init /\ kind = "mock"

NextMock ==
    \/ MockInitialize
    \/ MockShutdown
    \/ MockListAgents
    \/ \E id \in AgentIds("mock") : MockGetAgentStatus(id)
    \/ \E tid \in CallerTaskIds : MockGetTaskStatus(tid)
    \/ \E id \in AgentIds("mock") : MockCreateAgent(id)
    \/ \E id \in AgentIds("mock") : MockDeleteAgent(id)
    \/ \E tid \in CallerTaskIds \cup {None} : \E aid \in AgentIds("mock") \cup {None} :
         MockSubmitTask(tid, aid)
    \/ \E u \in DOMAIN units : MockExecStart(u)
    \/ \E u \in DOMAIN units : MockExecFinish(u)
    \/ \E tid \in CallerTaskIds : MockCancelTask(tid)

SpecMockLive == InitMock /\ [][NextMock]_vars /\ MockUnitsRun

\* An OpenClawProvider instance alone, under a running event loop, with at
\* most MaxLiveTasks submissions and callers that await one gateway call
\* before they start the next; the execution units run beside them.
InitOpenClaw == Init /\ kind = "openclaw"

NextOpenClaw ==
    \/ pend = <<>> /\ OpenClawInitialize
    \/ \E p \in DOMAIN pend : OpenClawInitializeAfterProbe(p)
    \/ \E p \in DOMAIN pend : OpenClawAfterList(p)
    \/ \E p \in DOMAIN pend : \E i \in 1..3 : OpenClawAfterDefaultPost(p, i)
    \/ \E p \in DOMAIN pend : OpenClawShutdownAfterClose(p)
    \/ \E p \in DOMAIN pend : OpenClawCreateAgentAfterPost(p)
    \/ \E p \in DOMAIN pend : OpenClawDeleteAgentAfterDelete(p)
    \/ \E pooled \in BOOLEAN : pend = <<>> /\ OpenClawShutdown(pooled)
    \/ pend = <<>> /\ OpenClawListAgents
    \/ \E id \in AgentIds("openclaw") : pend = <<>> /\ OpenClawCreateAgent(id)
    \/ \E id \in AgentIds("openclaw") : pend = <<>> /\ OpenClawDeleteAgent(id)
    \/ \E aid \in AgentIds("openclaw") \cup {None} :
         Len(units) < MaxLiveTasks /\ OpenClawSubmitTask(None, aid)
    \/ \E u \in DOMAIN units : OpenClawExecStart(u)
    \/ \E u \in DOMAIN units : OpenClawExecFinish(u)
    \/ \E tid \in CallerTaskIds : OpenClawCancelTask(tid)

SpecOpenClawLive == InitOpenClaw /\ [][NextOpenClaw]_vars /\ OpenClawUnitsStart

(***************************************************************************)
(* AgentService.  A provider instance is seen here by what the service     *)
(* reads and writes of it: its class, _initialized and, for OpenClaw,      *)
(* whether _client is set.  MockAgentProvider.initialize and shutdown      *)
(* await nothing that suspends, so they run within the caller's step;      *)
(* OpenClawProvider suspends in aclose(), in the health probe, in the GET  *)
(* of _sync_agents and in each POST of _create_default_agents.  Only the   *)
(* service calls a provider here, so the roster of a provider is empty     *)
(* when its initialize() resyncs.                                          *)
(***************************************************************************)
ProviderTypes == {"mock", "openclaw", "langgraph", "crewai", "bogus"}

provUnchanged == UNCHANGED <<kind, started, initialized, client, agents, tasks, units, last, now, reply, pend, inst, held>>

\* A provider as its constructor leaves it.
NewProvider(k) == [kind |-> k, initialized |-> FALSE, client |-> FALSE]

\* MockAgentProvider.initialize
MockReady(p) == [p EXCEPT !.initialized = TRUE]

\* OpenClawProvider.initialize up to the await of GET /health
OpenClawProbing(p) == [p EXCEPT !.client = TRUE]

\* OpenClawProvider.initialize: self._initialized = True
OpenClawReady(p) == [p EXCEPT !.initialized = TRUE]

\* A shutdown() that leaves the provider as it was.
ProviderLeftOpen(p) == p

\* shutdown() of either provider, after aclose() if there was a client
ProviderClosed(p) == [p EXCEPT !.initialized = FALSE, !.client = FALSE]

\* An AgentService call is suspended in aclose() of the client of provider p.
SvcClosing(p) == \E c \in DOMAIN calls : calls[c].pc = "closing" /\ calls[c].target = p

\* shutdown() of provider p suspends: it is an OpenClawProvider and its
\* await of self._client.aclose() does.
Suspends(p, pooled) ==
    /\ provs[p].kind = "openclaw"
    /\ AcloseSuspends(provs[p].client, SvcClosing(p), pooled)

NewCall(op, ptype) == [op |-> op, ptype |-> ptype, pc |-> "called", target |-> 0, ret |-> None]

\* get_instance() raises RuntimeError.
GetInstanceRaises == ~svc_instance \/ svc_provider = 0

\* initialize() from the factory on, cs and ps being the calls and the
\* providers after the old provider's shutdown: the provider is assigned to
\* instance._provider before its initialize() is awaited.
Construct(c, cs, ps) ==
    IF cs[c].ptype = "mock"
    THEN /\ provs' = Append(ps, MockReady(NewProvider("mock")))
         /\ svc_provider' = Len(ps) + 1
         /\ calls' = [cs EXCEPT ![c].pc = "returned", ![c].target = Len(ps) + 1, ![c].ret = "ok"]
    ELSE IF cs[c].ptype = "openclaw"
    THEN /\ provs' = Append(ps, OpenClawProbing(NewProvider("openclaw")))
         /\ svc_provider' = Len(ps) + 1
         /\ calls' = [cs EXCEPT ![c].pc = "probing", ![c].target = Len(ps) + 1]
    ELSE /\ provs' = ps
         /\ svc_provider' = svc_provider
         /\ calls' = [cs EXCEPT ![c].pc = "raised", ![c].target = 0,
                                ![c].ret = IF cs[c].ptype \in {"langgraph", "crewai"}
                                           THEN "NotImplementedError" ELSE "ValueError"]

\* AgentService(): __new__ creates the singleton on its first call; no
\* provider is constructed.
SvcConstruct ==
    /\ ~svc_instance
    /\ svc_instance' = TRUE
    /\ UNCHANGED <<svc_provider, provs, calls>>
    /\ provUnchanged

\* AgentService.initialize is called and runs to its first suspension: in
\* the shutdown() of the provider it holds when that suspends, and otherwise
\* in the new provider's initialize(), or not at all.
SvcInitialize(ptype, pooled) ==
    /\ Len(calls) < MaxCalls
    /\ svc_instance' = TRUE
    /\ LET c == Len(calls) + 1
           cs == Append(calls, NewCall("initialize", ptype))
       IN IF svc_provider # 0 /\ Suspends(svc_provider, pooled)
          THEN /\ calls' = [cs EXCEPT ![c].pc = "closing", ![c].target = svc_provider]
               /\ UNCHANGED <<svc_provider, provs>>
          ELSE Construct(c, cs, IF svc_provider # 0
                                THEN [provs EXCEPT ![svc_provider] = ProviderClosed(@)]
                                ELSE provs)
    /\ provUnchanged

\* aclose() of the old provider has returned: the old provider's shutdown()
\* ends and initialize() goes on to the factory.
SvcInitializeAfterClose(c) ==
    /\ calls[c].op = "initialize"
    /\ calls[c].pc = "closing"
    /\ Construct(c, calls, [provs EXCEPT ![calls[c].target] = ProviderClosed(@)])
    /\ UNCHANGED svc_instance
    /\ provUnchanged

\* GET /health has answered or raised; on success _sync_agents starts its GET,
\* which raises at once when the client is gone or is being closed.
SvcInitializeAfterProbe(c) ==
    /\ calls[c].op = "initialize"
    /\ calls[c].pc = "probing"
    /\ \E health \in HttpOutcomes :
         IF health # "ok"
         THEN calls' = [calls EXCEPT ![c].pc = "raised", ![c].ret = "ConnectionError"]
         ELSE IF SendRaises(provs[calls[c].target].client, SvcClosing(calls[c].target)) # None
         THEN calls' = [calls EXCEPT ![c].pc = "raised",
                                     ![c].ret = SendRaises(provs[calls[c].target].client,
                                                           SvcClosing(calls[c].target))]
         ELSE calls' = [calls EXCEPT ![c].pc = "syncing"]
    /\ UNCHANGED <<svc_instance, svc_provider, provs>>
    /\ provUnchanged

\* initialize() returns: _sync_agents has returned and
\* self._initialized = True follows.
SvcInitializeReturns(c) ==
    /\ calls' = [calls EXCEPT ![c].pc = "returned", ![c].ret = "ok"]
    /\ provs' = [provs EXCEPT ![calls[c].target] = OpenClawReady(@)]

\* The GET of _sync_agents has answered or raised.  An exception ends
\* initialize().  A 200 answer that reports agents fills the roster.
\* Otherwise the roster is empty and _create_default_agents makes its first
\* POST; without a client that takes requests its three create_agent calls
\* raise at once and are dropped.
SvcInitializeAfterSync(c) ==
    /\ calls[c].op = "initialize"
    /\ calls[c].pc = "syncing"
    /\ \E resp \in ListResponses :
         IF resp[1] = "raise"
         THEN /\ calls' = [calls EXCEPT ![c].pc = "raised", ![c].ret = "TransportError"]
              /\ UNCHANGED provs
         ELSE IF /\ SyncMerged(<<>>, resp) = <<>>
                 /\ SendRaises(provs[calls[c].target].client, SvcClosing(calls[c].target)) = None
         THEN /\ calls' = [calls EXCEPT ![c].pc = DefaultPost(1)]
              /\ UNCHANGED provs
         ELSE SvcInitializeReturns(c)
    /\ UNCHANGED <<svc_instance, svc_provider>>
    /\ provUnchanged

\* The i-th POST of _create_default_agents has answered or raised; whatever
\* it did, the next POST follows, or none when the client is gone or is
\* being closed, and after the last one initialize() returns.
SvcInitializeAfterDefaultPost(c, i) ==
    /\ calls[c].op = "initialize"
    /\ calls[c].pc = DefaultPost(i)
    /\ IF i < 3 /\ SendRaises(provs[calls[c].target].client, SvcClosing(calls[c].target)) = None
       THEN /\ calls' = [calls EXCEPT ![c].pc = DefaultPost(i + 1)]
            /\ UNCHANGED provs
       ELSE SvcInitializeReturns(c)
    /\ UNCHANGED <<svc_instance, svc_provider>>
    /\ provUnchanged

\* AgentService.shutdown is called on the instance and runs to its first
\* suspension, or to its end when the provider's shutdown() does not suspend.
SvcShutdown(pooled) ==
    /\ svc_instance
    /\ Len(calls) < MaxCalls
    /\ LET c == Len(calls) + 1
           cs == Append(calls, NewCall("shutdown", None))
       IN IF svc_provider = 0
          THEN /\ calls' = [cs EXCEPT ![c].pc = "returned", ![c].ret = "ok"]
               /\ UNCHANGED <<svc_provider, provs>>
          ELSE IF Suspends(svc_provider, pooled)
          THEN /\ calls' = [cs EXCEPT ![c].pc = "closing", ![c].target = svc_provider]
               /\ UNCHANGED <<svc_provider, provs>>
          ELSE /\ provs' = [provs EXCEPT ![svc_provider] = ProviderClosed(@)]
               /\ svc_provider' = 0
               /\ calls' = [cs EXCEPT ![c].pc = "returned", ![c].target = svc_provider,
                                      ![c].ret = "ok"]
    /\ UNCHANGED svc_instance
    /\ provUnchanged

\* aclose() has returned: the provider's shutdown() ends, and
\* self._provider = None follows.
SvcShutdownAfterClose(c) ==
    /\ calls[c].op = "shutdown"
    /\ calls[c].pc = "closing"
    /\ provs' = [provs EXCEPT ![calls[c].target] = ProviderClosed(@)]
    /\ svc_provider' = 0
    /\ calls' = [calls EXCEPT ![c].pc = "returned", ![c].ret = "ok"]
    /\ UNCHANGED svc_instance
    /\ provUnchanged

InitService ==
    /\ kind = "mock"
    /\ started = FALSE
    /\ initialized = FALSE
    /\ client = FALSE
    /\ agents = <<>>
    /\ tasks = <<>>
    /\ units = <<>>
    /\ last = NoCall
    /\ now = 1
    /\ svc_instance = FALSE
    /\ svc_provider = 0
    /\ provs = <<>>
    /\ calls = <<>>
    /\ reply = NoReply
    /\ pend = <<>>
    /\ inst = 0
    /\ held = TRUE

NextService ==
    \/ \E ptype \in ProviderTypes : \E pooled \in BOOLEAN : SvcInitialize(ptype, pooled)
    \/ \E c \in DOMAIN calls : SvcInitializeAfterClose(c)
    \/ \E c \in DOMAIN calls : SvcInitializeAfterProbe(c)
    \/ \E c \in DOMAIN calls : SvcInitializeAfterSync(c)
    \/ \E c \in DOMAIN calls : \E i \in 1..3 : SvcInitializeAfterDefaultPost(c, i)
    \/ SvcConstruct
    \/ \E pooled \in BOOLEAN : SvcShutdown(pooled)
    \/ \E c \in DOMAIN calls : SvcShutdownAfterClose(c)

SpecService == InitService /\ [][NextService]_vars

(***************************************************************************)
(* The service's provider and the coroutines of the providers it has       *)
(* replaced.  The variables describe the instance AgentService installed   *)
(* last, and held tells whether _provider still is that instance; of an    *)
(* instance it has dropped the execution units live on, and so do the      *)
(* calls suspended in its aclose().                                        *)
(***************************************************************************)
\* The provider types AgentService.initialize is called with here: the two
\* it constructs and one it does not know.
ReinstallTypes == {"mock", "openclaw", "bogus"}

\* What the factory raises for a provider type it does not construct.
FactoryRaises(ptype) ==
    IF ptype \in {"mock", "openclaw"} THEN None
    ELSE IF ptype \in {"langgraph", "crewai"} THEN "NotImplementedError"
    ELSE "ValueError"

\* The AgentService.initialize calls that have not reached the factory.
Reinstalling == SelectSeq(pend, LAMBDA c : c.op = "reinstall")

\* The suspended coroutines that are followed past the service's provider:
\* those suspended in aclose(), whose shutdown() goes on to clear the dicts
\* of the instance it was called on.  The other API coroutines of a dropped
\* instance read and write that instance only, and no unit reads what they
\* write.
Outliving(ps) == SelectSeq(ps, LAMBDA c : c.pc = "aclose")

\* The units once the service's provider is dropped, ags, tks and cl being
\* its _agents, its _tasks and whether its _client is set: a unit that has
\* not taken its first step will look its task up in these dicts, the mock
\* unit also the agent of the TaskStatus it finds.
LeftBehind(us, ags, tks, cl) ==
    [u \in DOMAIN us |->
        IF ~us[u].own THEN us[u]
        ELSE IF us[u].pc # "scheduled" THEN [us[u] EXCEPT !.own = FALSE, !.cref = cl]
        ELSE LET found == HasTask(tks, us[u].task_id)
                 aid == IF found /\ us[u].cls = "mock"
                        THEN TaskOf(tks, us[u].task_id).agent_id
                        ELSE us[u].agent_id
             IN [us[u] EXCEPT !.own = FALSE, !.tref = found, !.agent_id = aid,
                              !.aref = HasAgent(ags, aid), !.cref = cl]]

\* The factory and the new instance's initialize() up to its first await,
\* ps being the other suspended coroutines and us the units; ags, tks and cl
\* are what the provider that was held keeps in _agents, _tasks and _client.
Install(ptype, ps, us, ags, tks, cl) ==
    /\ kind' = ptype
    /\ inst' = inst + 1
    /\ held' = TRUE
    /\ started' = TRUE
    /\ initialized' = (ptype = "mock")
    /\ client' = (ptype = "openclaw")
    /\ agents' = IF ptype = "mock" THEN PutAll(<<>>, MockDefaultIds) ELSE <<>>
    /\ tasks' = <<>>
    /\ units' = LeftBehind(us, ags, tks, cl)
    /\ pend' = IF ptype = "mock" THEN Outliving(ps)
               ELSE Append(Outliving(ps),
                           [Pending("initialize", None, "health") EXCEPT !.target = inst + 1])
    /\ last' = IF ptype = "mock" THEN Call("initialize", None, "ok") ELSE NoCall

\* The factory raises for a provider type it does not construct: the service
\* keeps the provider it held.  i is the instance whose shutdown() has just
\* returned.
Refuse(ptype, ps, i) ==
    /\ ShutdownTail(i)
    /\ pend' = ps
    /\ last' = Call("initialize", None, FactoryRaises(ptype))
    /\ UNCHANGED <<kind, started, inst, held>>

\* AgentService.initialize.  When the service holds a provider, the old
\* provider's shutdown() comes first, suspended in aclose() when that
\* suspends; then the factory and initialize() of the new instance.  When an
\* AgentService.shutdown() has cleared instance._provider, no shutdown() is
\* called and the factory follows at once.
Reinstall(ptype, pooled) ==
    /\ started
    /\ inst + Len(Reinstalling) < MaxCalls
    /\ IF held /\ kind = "openclaw" /\ AcloseSuspends(client, Closing(inst), pooled)
       THEN /\ Len(pend) < MaxPending
            /\ pend' = Append(pend, Pending("reinstall", ptype, "aclose"))
            /\ last' = NoCall
            /\ UNCHANGED <<kind, started, initialized, client, agents, tasks, units, inst, held>>
       ELSE IF FactoryRaises(ptype) = None
       THEN IF held
            THEN Install(ptype, pend, DetachAll(units), <<>>, <<>>, FALSE)
            ELSE Install(ptype, pend, units, agents, tasks, client)
       ELSE IF held
       THEN Refuse(ptype, pend, inst)
       ELSE /\ last' = Call("initialize", None, FactoryRaises(ptype))
            /\ UNCHANGED <<kind, started, initialized, client, agents, tasks, units, inst,
                           held, pend>>
    /\ reply' = NoReply
    /\ UNCHANGED now
    /\ UNCHANGED <<svc_instance, svc_provider, provs, calls>>

\* aclose() has returned in an AgentService.initialize: the shutdown() of
\* the provider it was closing ends, and the factory follows.  When another
\* initialize has installed a provider meanwhile, that provider is replaced
\* without a shutdown().
ReinstallAfterClose(p) ==
    /\ pend[p].op = "reinstall"
    /\ LET i == pend[p].target
       IN IF FactoryRaises(pend[p].arg) # None
          THEN Refuse(pend[p].arg, Without(pend, p), i)
          ELSE IF i = inst
          THEN Install(pend[p].arg, Without(pend, p), DetachAll(units), <<>>, <<>>, FALSE)
          ELSE Install(pend[p].arg, Without(pend, p), DetachInstance(units, i),
                       agents, tasks, client)
    /\ reply' = NoReply
    /\ UNCHANGED now
    /\ UNCHANGED <<svc_instance, svc_provider, provs, calls>>

\* AgentService.shutdown(): the shutdown() of the provider the service holds,
\* suspended in aclose() when that suspends, and self._provider = None after
\* it; without a provider nothing is done.
ServiceShutdown(pooled) ==
    /\ started
    /\ IF ~held
       THEN /\ last' = Call("service_shutdown", None, "ok")
            /\ UNCHANGED <<initialized, client, agents, tasks, units, held, pend>>
       ELSE IF kind = "openclaw" /\ AcloseSuspends(client, Closing(inst), pooled)
       THEN /\ Len(pend) < MaxPending
            /\ pend' = Append(pend, Pending("service_shutdown", None, "aclose"))
            /\ last' = NoCall
            /\ UNCHANGED <<initialized, client, agents, tasks, units, held>>
       ELSE /\ ShutdownTail(inst)
            /\ held' = FALSE
            /\ last' = Call("service_shutdown", None, "ok")
            /\ UNCHANGED pend
    /\ reply' = NoReply
    /\ UNCHANGED <<kind, started, inst, now>>
    /\ UNCHANGED <<svc_instance, svc_provider, provs, calls>>

\* aclose() has returned in an AgentService.shutdown(): the shutdown() of the
\* provider it was closing ends, and self._provider = None follows, whichever
\* provider the service holds by then.
ServiceShutdownAfterClose(p) ==
    /\ pend[p].op = "service_shutdown"
    /\ ShutdownTail(pend[p].target)
    /\ held' = FALSE
    /\ pend' = Without(pend, p)
    /\ last' = Call("service_shutdown", None, "ok")
    /\ reply' = NoReply
    /\ UNCHANGED <<kind, started, inst, now>>
    /\ UNCHANGED <<svc_instance, svc_provider, provs, calls>>

NextReinstall ==
    \/ MockInitialize
    \/ MockShutdown
    \/ MockListAgents
    \/ \E id \in AgentIds("mock") : MockCreateAgent(id)
    \/ \E tid \in CallerTaskIds \cup {None} : \E aid \in AgentIds("mock") \cup {None} :
         Len(units) < MaxLiveTasks /\ MockSubmitTask(tid, aid)
    \/ \E u \in DOMAIN units : MockExecStart(u)
    \/ \E u \in DOMAIN units : MockExecFinish(u)
    \/ \E tid \in CallerTaskIds : MockCancelTask(tid)
    \/ Room /\ OpenClawInitialize
    \/ \E p \in DOMAIN pend : OpenClawInitializeAfterProbe(p)
    \/ \E p \in DOMAIN pend : OpenClawAfterList(p)
    \/ \E p \in DOMAIN pend : \E i \in 1..3 : OpenClawAfterDefaultPost(p, i)
    \/ \E p \in DOMAIN pend : OpenClawShutdownAfterClose(p)
    \/ \E p \in DOMAIN pend : OpenClawCreateAgentAfterPost(p)
    \/ \E p \in DOMAIN pend : ReinstallAfterClose(p)
    \/ \E pooled \in BOOLEAN : Room /\ OpenClawShutdown(pooled)
    \/ Room /\ OpenClawListAgents
    \/ \E id \in AgentIds("openclaw") : Room /\ OpenClawCreateAgent(id)
    \/ \E tid \in CallerTaskIds \cup {None} : \E aid \in AgentIds("openclaw") \cup {None} :
         Room /\ Len(units) < MaxLiveTasks /\ OpenClawSubmitTask(tid, aid)
    \/ \E u \in DOMAIN units : OpenClawExecStart(u)
    \/ \E u \in DOMAIN units : OpenClawExecFinish(u)
    \/ \E tid \in CallerTaskIds : OpenClawCancelTask(tid)
    \/ \E ptype \in ReinstallTypes : \E pooled \in BOOLEAN : Room /\ Reinstall(ptype, pooled)
    \/ \E pooled \in BOOLEAN : Room /\ ServiceShutdown(pooled)
    \/ \E p \in DOMAIN pend : ServiceShutdownAfterClose(p)

SpecReinstall == Init /\ [][NextReinstall]_vars

(***************************************************************************)
(* Properties.                                                             *)
(***************************************************************************)
\* The step is a submit_task call: it schedules one more execution unit.
Submitting == Len(units') = Len(units) + 1

\* No AgentService call is suspended.
Quiescent == \A c \in DOMAIN calls : calls[c].pc \in {"returned", "raised"}

\* The service holds a provider whose initialize() has completed.
ProviderActive == svc_provider # 0 /\ provs[svc_provider].initialized

\* C1: once a task of the collection is completed, failed or cancelled, no
\* step of a caller or of an execution unit changes its status (a step that
\* clears the collection or stores a new record under the id aside).
C1_TerminalStatusIsFinal ==
    [][\A i \in DOMAIN tasks :
         (tasks[i].status \in TerminalStatuses /\ ~Submitting /\ i \in DOMAIN tasks')
            => tasks'[i].status = tasks[i].status]_vars

\* C2: when an AgentService.initialize call raises, get_instance() raises in
\* the state the call leaves.
C2_FailedInitializeLeavesNoProvider ==
    [][\A c \in DOMAIN calls' :
         (/\ calls'[c].op = "initialize"
          /\ calls'[c].pc = "raised"
          /\ (c \notin DOMAIN calls \/ calls[c].pc # "raised"))
            => GetInstanceRaises']_vars

\* C3: every provider instance whose initialize() has completed and whose
\* shutdown() has not is the service's provider, so there is at most one.
C3_AtMostOneReadyProvider ==
    \A p \in DOMAIN provs : provs[p].initialized => svc_provider = p

\* C4: with no service call in flight, get_instance() raises unless the
\* service holds a provider whose initialize() has completed.
C4_GetInstanceNeedsActiveProvider ==
    (Quiescent /\ ~ProviderActive) => GetInstanceRaises

\* C5: in the state submit_task returns in, the task is in the collection,
\* queued, with started_at, completed_at, result and error unset; its
\* execution unit is scheduled and has taken no step, and no other unit has
\* moved.
C5_SubmitReturnsQueued ==
    [][Submitting =>
         /\ last'.op = "submit_task"
         /\ HasTask(tasks', last'.ret)
         /\ TaskOf(tasks', last'.ret).status = "queued"
         /\ TaskOf(tasks', last'.ret).started_at = 0
         /\ TaskOf(tasks', last'.ret).completed_at = 0
         /\ TaskOf(tasks', last'.ret).result = None
         /\ TaskOf(tasks', last'.ret).error = None
         /\ units'[Len(units')].pc = "scheduled"
         /\ units'[Len(units')].task_id = last'.ret
         /\ \A u \in DOMAIN units : units'[u].pc = units[u].pc]_vars

C5_Witness ==
    /\ last.op = "submit_task"
    /\ HasTask(tasks, last.ret)
    /\ TaskOf(tasks, last.ret).status = "queued"
    /\ Len(units) = 2
    /\ units[1].pc = "awaiting"
    /\ units[2].pc = "scheduled"

\* C6: a submit_task without agent_id (None or the empty string), made while some agent of the roster is
\* idle, binds the task to the first agent in roster order whose status is
\* idle.
C6_AutoRouteFirstIdle ==
    [][(/\ Submitting
        /\ last'.arg \in NotGiven
        /\ \E i \in DOMAIN agents : agents[i].status = "idle")
          => \E i \in DOMAIN agents :
               /\ agents[i].status = "idle"
               /\ \A j \in 1..(i - 1) : agents[j].status # "idle"
               /\ TaskOf(tasks', last'.ret).agent_id = agents[i].agent_id]_vars

\* A request without agent_id has passed a busy first agent and is bound to
\* the idle second one.
RoutedPastBusyAgent ==
    /\ last.op = "submit_task"
    /\ last.arg = None
    /\ Len(agents) >= 2
    /\ agents[1].status = "busy"
    /\ agents[2].status = "idle"
    /\ HasTask(tasks, last.ret)
    /\ TaskOf(tasks, last.ret).agent_id = agents[2].agent_id

\* in the external provider, whose first agent is busy with an earlier task
C6_Witness == kind = "openclaw" /\ RoutedPastBusyAgent

\* in the in-memory provider
C6_WitnessMock == kind = "mock" /\ RoutedPastBusyAgent

\* C7: cancel_task on a task that is queued or running returns True and
\* leaves the task cancelled with completed_at set.
C7_CancelStampsCompletedAt ==
    [][\A tid \in CallerTaskIds :
         (last'.op = "cancel_task" /\ last'.arg = tid
          /\ HasTask(tasks, tid) /\ TaskOf(tasks, tid).status \in {"queued", "running"})
            => /\ last'.ret = "True"
               /\ TaskOf(tasks', tid).status = "cancelled"
               /\ TaskOf(tasks', tid).completed_at # 0]_vars

\* C8: cancel_task on an unknown task or on a completed, failed or cancelled
\* one returns False and changes no task, no agent and no execution unit.
C8_RefusedCancelChangesNothing ==
    [][\A tid \in CallerTaskIds :
         (last'.op = "cancel_task" /\ last'.arg = tid
          /\ (~HasTask(tasks, tid) \/ TaskOf(tasks, tid).status \in TerminalStatuses))
            => /\ last'.ret = "False"
               /\ tasks' = tasks
               /\ agents' = agents
               /\ units' = units]_vars

C8_Witness ==
    /\ last.op = "cancel_task"
    /\ last.ret = "False"
    /\ HasTask(tasks, last.arg)
    /\ TaskOf(tasks, last.arg).status = "completed"

\* C9: every agent of the roster has a current_task exactly when its status
\* is busy.
C9_CurrentTaskIffBusy ==
    \A i \in DOMAIN agents : (agents[i].current_task # None) <=> (agents[i].status = "busy")

\* One agent is busy with a task and another has been released by a unit
\* that ended.
BusyBesideReleased ==
    /\ \E i \in DOMAIN agents : agents[i].status = "busy" /\ agents[i].current_task # None
    /\ \E i \in DOMAIN agents :
         /\ agents[i].status = "idle"
         /\ agents[i].tasks_completed + agents[i].tasks_failed > 0

\* in the external provider, with one unit awaiting its POST and one ended
C9_Witness ==
    /\ kind = "openclaw"
    /\ BusyBesideReleased
    /\ \E u, v \in DOMAIN units :
         u # v /\ units[u].pc = "awaiting" /\ units[v].pc = "done"

\* in the in-memory provider
C9_WitnessMock == kind = "mock" /\ BusyBesideReleased

\* C10: no step lowers tasks_completed or tasks_failed of an agent id that is
\* in the roster before and after the step.
C10_CountersNeverDecrease ==
    [][\A i \in DOMAIN agents : \A j \in DOMAIN agents' :
         agents'[j].agent_id = agents[i].agent_id
            => /\ agents'[j].tasks_completed >= agents[i].tasks_completed
               /\ agents'[j].tasks_failed >= agents[i].tasks_failed]_vars

\* The number of submit_task calls that bound their task to agent id.
EverBound(id) == Cardinality({u \in DOMAIN units : units[u].bound = id})

\* C11: for every agent of the roster, tasks_completed + tasks_failed is at
\* most the number of tasks submit_task ever bound to that agent.
C11_CountersWithinBoundTasks ==
    \A i \in DOMAIN agents :
        agents[i].tasks_completed + agents[i].tasks_failed <= EverBound(agents[i].agent_id)

\* C12: for every task of the collection, result is set exactly when the
\* status is completed, and error is set exactly when the status is failed.
C12_ResultIffCompleted ==
    \A i \in DOMAIN tasks :
        /\ (tasks[i].result # None) <=> (tasks[i].status = "completed")
        /\ (tasks[i].error # None) <=> (tasks[i].status = "failed")

\* The request whose submit_task stored the record now kept under tid.
Requester(tid) ==
    CHOOSE u \in DOMAIN units :
        /\ units[u].task_id = tid
        /\ \A v \in DOMAIN units : units[v].task_id = tid => v <= u

\* The record submit_task stored for request u is in the collection.
Stored(u) ==
    /\ u \in DOMAIN units
    /\ HasTask(tasks, units[u].task_id)
    /\ Requester(units[u].task_id) = u

\* The task of request u is bound to an agent that is in the roster.
BoundToPresentAgent(u) ==
    /\ Stored(u)
    /\ TaskOf(tasks, units[u].task_id).agent_id # None
    /\ HasAgent(agents, TaskOf(tasks, units[u].task_id).agent_id)

\* The task of request u is completed, stamped, with the request's data.
CompletedWithEcho(u) ==
    /\ Stored(u)
    /\ TaskOf(tasks, units[u].task_id).status = "completed"
    /\ TaskOf(tasks, units[u].task_id).started_at # 0
    /\ TaskOf(tasks, units[u].task_id).completed_at # 0
    /\ TaskOf(tasks, units[u].task_id).result = InputData(u)

WasCancelled(u) ==
    /\ Stored(u)
    /\ TaskOf(tasks, units[u].task_id).status = "cancelled"

\* C13: in the in-memory provider a task bound to an agent of the roster is
\* eventually completed, with started_at, completed_at and a result carrying
\* its request's input_data, unless it is cancelled; and in the step that
\* completes it the bound agent, when in the roster, becomes idle with no
\* current_task and with tasks_completed one higher than before.
C13_MockTaskCompletes ==
    /\ \A u \in 1..MaxTasks :
          (kind = "mock" /\ BoundToPresentAgent(u)) ~> (CompletedWithEcho(u) \/ WasCancelled(u))
    /\ [][kind = "mock" =>
            \A i \in DOMAIN tasks : \A j \in DOMAIN tasks' :
              (/\ tasks'[j].task_id = tasks[i].task_id
               /\ tasks[i].status # "completed"
               /\ tasks'[j].status = "completed"
               /\ HasAgent(agents, tasks[i].agent_id)
               /\ HasAgent(agents', tasks[i].agent_id))
                 => /\ AgentOf(agents', tasks[i].agent_id).status = "idle"
                    /\ AgentOf(agents', tasks[i].agent_id).current_task = None
                    /\ AgentOf(agents', tasks[i].agent_id).tasks_completed
                         = AgentOf(agents, tasks[i].agent_id).tasks_completed + 1]_vars

\* C14: in the in-memory provider no task is failed or carries an error, and
\* tasks_failed of every agent is 0.
C14_MockNeverFails ==
    kind = "mock" =>
        /\ \A i \in DOMAIN tasks : tasks[i].status # "failed" /\ tasks[i].error = None
        /\ \A i \in DOMAIN agents : agents[i].tasks_failed = 0

C14_Witness ==
    /\ kind = "mock"
    /\ \E i \in DOMAIN tasks : tasks[i].status = "completed"
    /\ \E i \in DOMAIN tasks : tasks[i].status = "cancelled"
    /\ \E i \in DOMAIN agents : agents[i].tasks_completed > 0

\* C15: when the POST of an execution unit of the external provider raises,
\* times out or answers with a status other than 200, the unit ends without
\* an exception; its task, when still the record of the collection, is failed
\* with error and completed_at set; and the bound agent, when in the roster,
\* has tasks_failed one higher and tasks_completed unchanged.
C15_FailureIsRecorded ==
    [][\A u \in DOMAIN units :
         (/\ kind = "openclaw"
          /\ last'.op = "post"
          /\ last'.arg = ToString(u)
          /\ last'.ret # "ok")
            => /\ units'[u].pc = "done"
               /\ (units[u].pc = "scheduled" \/ units[u].tref)
                    => /\ TaskOf(tasks', units[u].task_id).status = "failed"
                       /\ TaskOf(tasks', units[u].task_id).error # None
                       /\ TaskOf(tasks', units[u].task_id).completed_at # 0
               /\ HasAgent(agents, units[u].agent_id)
                    => /\ AgentOf(agents', units[u].agent_id).tasks_failed
                            = AgentOf(agents, units[u].agent_id).tasks_failed + 1
                       /\ AgentOf(agents', units[u].agent_id).tasks_completed
                            = AgentOf(agents, units[u].agent_id).tasks_completed]_vars

C15_Witness ==
    /\ kind = "openclaw"
    /\ last.op = "post"
    /\ last.ret = "status"
    /\ \E i \in DOMAIN tasks : tasks[i].status = "failed" /\ tasks[i].error # None
    /\ \E i \in DOMAIN agents : agents[i].tasks_failed = 1 /\ agents[i].status = "idle"

\* C15 witness: the POST of a unit was not sent, because a shutdown() was
\* closing the client when the unit took its first step; the unit has ended
\* and the failure is counted.
C15_WitnessNotSent ==
    /\ kind = "openclaw"
    /\ last.op = "post"
    /\ last.ret = "raise"
    /\ client
    /\ Closing(inst)
    /\ \E u \in DOMAIN units :
         /\ last.arg = ToString(u)
         /\ units[u].pc = "done"
         /\ units[u].begun = 0
         /\ TaskOf(tasks, units[u].task_id).status = "failed"
    /\ \E i \in DOMAIN agents : agents[i].tasks_failed = 1 /\ agents[i].status = "idle"

\* An agent with this id is in the roster and busy.
Busy(id) == HasAgent(agents, id) /\ AgentOf(agents, id).status = "busy"

\* In the external provider, the step in which an execution unit ends leaves
\* the bound agent, when in the roster, idle with no current_task.
ReleasedWhenUnitEnds ==
    [][\A u \in DOMAIN units :
         (/\ kind = "openclaw"
          /\ units[u].pc # "done"
          /\ units'[u].pc = "done"
          /\ HasAgent(agents', units[u].agent_id))
            => /\ AgentOf(agents', units[u].agent_id).status = "idle"
               /\ AgentOf(agents', units[u].agent_id).current_task = None]_vars

\* C16: in the external provider, the step in which an execution unit ends
\* leaves the bound agent, when in the roster, idle with no current_task; and
\* an agent that is busy is eventually not busy.
C16_AgentReleasedAtEnd ==
    /\ ReleasedWhenUnitEnds
    /\ (kind = "openclaw" /\ Busy(OpenClawDefaultIds[1])) ~> ~Busy(OpenClawDefaultIds[1])
    /\ (kind = "openclaw" /\ Busy(OpenClawDefaultIds[2])) ~> ~Busy(OpenClawDefaultIds[2])
    /\ (kind = "openclaw" /\ Busy(OpenClawDefaultIds[3])) ~> ~Busy(OpenClawDefaultIds[3])

\* A unit of the external provider has ended and its agent is idle again.
C16_UnitEnded ==
    /\ kind = "openclaw"
    /\ last.op = "post"
    /\ \E u \in DOMAIN units :
         /\ units[u].pc = "done"
         /\ HasAgent(agents, units[u].agent_id)
         /\ AgentOf(agents, units[u].agent_id).status = "idle"
         /\ AgentOf(agents, units[u].agent_id).tasks_completed
              + AgentOf(agents, units[u].agent_id).tasks_failed > 0

\* C17: when an execution unit ends after running for longer than the
\* timeout_seconds of its request, its task, when still the record of the
\* collection, is failed and not completed.
C17_OverrunIsFailed ==
    [][\A u \in DOMAIN units :
         (/\ units[u].pc = "awaiting"
          /\ units'[u].pc = "done"
          /\ units[u].tref
          /\ now - units[u].begun > TimeoutSeconds)
            => TaskOf(tasks', units[u].task_id).status = "failed"]_vars

\* C18 as stated: in the state create_agent returns in, the agent is in the
\* roster, idle, with no current_task and both counters 0; and in the state
\* initialize() of the in-memory provider returns in, the roster is the three
\* default agents in order, all in that condition, and there is no task.
C18_CreatedAgentIsFresh ==
    [][/\ (last'.op = "create_agent" /\ last'.ret = "ok")
            => /\ HasAgent(agents', last'.arg)
               /\ AgentOf(agents', last'.arg) = NewAgentStatus(last'.arg)
       /\ (kind = "mock" /\ last'.op = "initialize" /\ last'.ret = "ok")
            => /\ agents' = [i \in 1..3 |-> NewAgentStatus(MockDefaultIds[i])]
               /\ tasks' = <<>>]_vars

\* C18, amended: in the state create_agent returns in, the agent is in the
\* roster, idle, with no current_task and both counters 0; and an
\* initialize() of an in-memory provider that holds no agent and no task
\* returns with the three default agents in order, all in that condition,
\* and with no task.
C18_FreshProviderHoldsDefaults ==
    [][/\ (last'.op = "create_agent" /\ last'.ret = "ok")
            => /\ HasAgent(agents', last'.arg)
               /\ AgentOf(agents', last'.arg) = NewAgentStatus(last'.arg)
       /\ (/\ kind = "mock" /\ last'.op = "initialize" /\ last'.ret = "ok"
           /\ agents = <<>> /\ tasks = <<>>)
            => /\ agents' = [i \in 1..3 |-> NewAgentStatus(MockDefaultIds[i])]
               /\ tasks' = <<>>]_vars

C18_Witness ==
    /\ last.op = "create_agent"
    /\ last.ret = "ok"
    /\ \E u \in DOMAIN units : units[u].pc = "awaiting" /\ units[u].agent_id = last.arg
    /\ AgentOf(agents, last.arg).status = "idle"

\* C19: get_agent_status on an id that is not in the roster and
\* get_task_status on an id that is not in the task collection raise the
\* not-found ValueError and change neither collection.
C19_UnknownIdIsNotFound ==
    [][/\ (last'.op = "get_agent_status" /\ ~HasAgent(agents, last'.arg))
            => /\ last'.ret = "ValueError"
               /\ agents' = agents
               /\ tasks' = tasks
       /\ (last'.op = "get_task_status" /\ ~HasTask(tasks, last'.arg))
            => /\ last'.ret = "ValueError"
               /\ agents' = agents
               /\ tasks' = tasks]_vars

\* C20: delete_agent(id) returns True exactly when an agent with that id was
\* in the roster; when it returns, no agent has that id, every other agent
\* is as before, in the same order, and every task is unchanged.
C20_DeleteReturnsPresence ==
    [][last'.op = "delete_agent"
         => /\ (last'.ret = "True") <=> HasAgent(agents, last'.arg)
            /\ last'.ret \in {"True", "False"}
            /\ ~HasAgent(agents', last'.arg)
            /\ agents' = DelAgent(agents, last'.arg)
            /\ tasks' = tasks]_vars

\* C21: whatever the gateway does with the DELETE, delete_agent of the
\* external provider returns without raising and leaves no agent with that
\* id in the roster.
C21_DeleteSurvivesRemoteFailure ==
    [][(kind = "openclaw" /\ last'.op = "delete_agent")
         => /\ last'.ret \in {"True", "False"}
            /\ ~HasAgent(agents', last'.arg)]_vars

\* C22: whatever the gateway does with the POST, create_agent of the external
\* provider returns the status and leaves the agent in the roster, idle.
C22_CreateSurvivesRemoteFailure ==
    [][(kind = "openclaw" /\ last'.op = "create_agent")
         => /\ last'.ret = "ok"
            /\ HasAgent(agents', last'.arg)
            /\ AgentOf(agents', last'.arg).status = "idle"]_vars

\* C23: list_agents on a non-empty roster and get_agent_status on an agent of
\* the roster return in the external provider, whatever the gateway does with
\* the resync.
C23_ReadsSurviveResyncFailure ==
    [][/\ (kind = "openclaw" /\ last'.op = "list_agents" /\ agents # <<>>)
            => last'.ret = "ok"
       /\ (kind = "openclaw" /\ last'.op = "get_agent_status" /\ HasAgent(agents, last'.arg))
            => last'.ret = "ok"]_vars

\* C24: an initialize of the external provider whose health probe fails raises
\* ConnectionError and leaves the provider not initialized; it has loaded no
\* agent: the roster is the one the callers of the provider had made before
\* the probe was answered, and empty when there was no such call.
C24_FailedProbeLeavesNotReady ==
    [][(kind = "openclaw" /\ last'.op = "initialize" /\ last'.arg # "ok")
         => /\ last'.ret = "ConnectionError"
            /\ ~initialized'
            /\ agents' = agents]_vars

\* initialize has returned from a failed probe
C24_Witness ==
    /\ kind = "openclaw"
    /\ last.op = "initialize"
    /\ last.arg \in {"status", "raise"}
    /\ last.ret = "ConnectionError"
    /\ client
    /\ ~initialized
    /\ agents = <<>>

\* C25: health_check of either provider returns, in every state of the
\* provider, a summary whose status is healthy, degraded or unhealthy; when
\* the gateway does not answer the probe with success, the status is
\* unhealthy and the summary carries the error.
C25_HealthCheckSummary ==
    [][last'.op = "health_check"
         => /\ last'.ret = "ok"
            /\ reply'.status \in {"healthy", "degraded", "unhealthy"}
            /\ (kind = "openclaw" /\ last'.arg \in {"status", "raise"})
                 => (reply'.status = "unhealthy" /\ reply'.error # None)]_vars

\* The shutdown() call the step starts, if it starts one.
ShutdownCalled ==
    /\ Len(calls') = Len(calls) + 1
    /\ calls'[Len(calls')].op = "shutdown"

\* Call c is a shutdown() that returns in the step.
ShutdownReturns(c) ==
    /\ calls'[c].op = "shutdown"
    /\ calls'[c].pc = "returned"
    /\ c \in DOMAIN calls => calls[c].pc # "returned"

\* C26: an AgentService.shutdown() that found a provider returns with that
\* provider shut down and the service's reference cleared; one that is called
\* while the service has no provider returns at once without raising, touches
\* no provider and leaves the service without provider.
C26_ServiceShutdownIdempotent ==
    [][/\ \A c \in DOMAIN calls' :
            ShutdownReturns(c)
              => /\ calls'[c].ret = "ok"
                 /\ svc_provider' = 0
                 /\ calls'[c].target # 0
                      => /\ ~provs'[calls'[c].target].initialized
                         /\ ~provs'[calls'[c].target].client
       /\ (ShutdownCalled /\ svc_provider = 0)
            => /\ ShutdownReturns(Len(calls'))
               /\ calls'[Len(calls')].target = 0
               /\ provs' = provs]_vars

\* a second shutdown() has returned after the first one shut the provider down
C26_Witness ==
    \E c, d \in DOMAIN calls :
        /\ c < d
        /\ calls[c].op = "shutdown" /\ calls[c].pc = "returned" /\ calls[c].target # 0
        /\ calls[d].op = "shutdown" /\ calls[d].pc = "returned" /\ calls[d].target = 0
        /\ svc_provider = 0

\* Both collections are empty, the provider is not ready and holds no client.
Clean ==
    /\ agents = <<>>
    /\ tasks = <<>>
    /\ ~initialized
    /\ ~client

\* C27: shutdown() of a provider, called in any state, returns with both
\* collections empty and the provider not ready; called on a clean provider
\* it returns without raising and the provider is clean as before.
C27_ShutdownCleans ==
    [][last'.op = "shutdown"
         => /\ agents' = <<>>
            /\ tasks' = <<>>
            /\ ~initialized'
            /\ Clean => (last'.ret = "ok" /\ Clean')]_vars

\* shutdown() has returned while a task was being executed
ShutDownUnderUnit ==
    /\ last.op = "shutdown"
    /\ Clean
    /\ \E u \in DOMAIN units : units[u].pc = "awaiting"

\* in the external provider, whose unit awaits its POST
C27_Witness == kind = "openclaw" /\ ShutDownUnderUnit

\* in the in-memory provider
C27_WitnessMock == kind = "mock" /\ ShutDownUnderUnit

\* a second shutdown() of the external provider has returned while the first
\* is still suspended in aclose()
C27_WitnessSecondShutdown ==
    /\ kind = "openclaw"
    /\ last.op = "shutdown"
    /\ Clean
    /\ \E p \in DOMAIN pend : pend[p].op = "shutdown" /\ pend[p].pc = "aclose"

\* shutdown() has returned on a provider that was never initialized
C27_WitnessNeverInitialized ==
    /\ last.op = "shutdown"
    /\ ~started
    /\ Clean

\* Task t passes the filters of query r.
Passes(t, r) ==
    /\ r.agent_id # None => t.agent_id = r.agent_id
    /\ r.status # None => t.status = r.status

\* C28: list_tasks returns only tasks of the collection that pass the given
\* filters, none of them twice; for a limit >= 0 it returns
\* min(limit, number of tasks passing) of them; it changes no task and no agent.
C28_ListTasksFilters ==
    [][last'.op = "list_tasks"
         => /\ \A i \in DOMAIN reply'.tasks :
                 /\ \E j \in DOMAIN tasks : tasks[j] = reply'.tasks[i]
                 /\ Passes(reply'.tasks[i], reply')
                 /\ \A k \in DOMAIN reply'.tasks :
                      k # i => reply'.tasks[k].task_id # reply'.tasks[i].task_id
            /\ reply'.limit >= 0
                 => LET n == Cardinality({j \in DOMAIN tasks : Passes(tasks[j], reply')})
                    IN Len(reply'.tasks) = IF reply'.limit < n THEN reply'.limit ELSE n
            /\ tasks' = tasks
            /\ agents' = agents]_vars

\* list_tasks has returned a task under an agent filter and a status filter
\* which another task of the collection does not pass
C28_Witness ==
    /\ last.op = "list_tasks"
    /\ reply.agent_id # None
    /\ reply.status # None
    /\ reply.tasks # <<>>
    /\ \E j \in DOMAIN tasks : ~Passes(tasks[j], reply)

\* list_tasks has cut its answer down to the limit
C28_WitnessTruncated ==
    /\ last.op = "list_tasks"
    /\ reply.limit >= 0
    /\ Len(reply.tasks) = reply.limit
    /\ Cardinality({j \in DOMAIN tasks : Passes(tasks[j], reply)}) > reply.limit

\* The tasks with started_at and completed_at both set.
BothStamps(ts) == SelectSeq(ts, LAMBDA t : t.started_at # 0 /\ t.completed_at # 0)

\* C29: average_task_time_seconds of get_system_metrics is 0 when no task has
\* both timestamps, and otherwise the mean of completed_at - started_at over
\* the tasks that have both, whatever their status.  (The average returned
\* is time_total / time_count, or 0 when time_count is 0.)
C29_AverageOverStampedTasks ==
    [][last'.op = "get_system_metrics"
         => IF reply'.time_count = 0
            THEN TotalSeconds(BothStamps(tasks)) = 0
            ELSE reply'.time_total * Len(BothStamps(tasks))
                   = TotalSeconds(BothStamps(tasks)) * reply'.time_count]_vars

\* C30: no two execution units hold the same task record, and a submit_task
\* whose task_id is already in the collection leaves the collection as it is
\* and starts no execution unit.
C30_OneUnitPerTask ==
    [][/\ \A u, v \in DOMAIN units' :
            (u # v /\ units'[u].task_id = units'[v].task_id)
              => ~(units'[u].tref /\ units'[v].tref)
       /\ (last'.op = "submit_task" /\ HasTask(tasks, last'.ret))
            => (tasks' = tasks /\ Len(units') = Len(units))]_vars

\* No two execution units hold the same task record.
C30_NoSharedRecord ==
    \A u, v \in DOMAIN units :
        (u # v /\ units[u].task_id = units[v].task_id) => ~(units[u].tref /\ units[v].tref)

\* The calls that only read the roster.
ReadCalls ==
    {"list_agents", "get_agent_status", "get_task_status", "list_tasks", "cancel_task",
     "get_system_metrics", "health_check"}

\* C31: list_agents, get_agent_status, get_task_status, list_tasks,
\* cancel_task, get_system_metrics and health_check leave every agent of the
\* roster in the roster with the status and the current_task it had.
C31_ReadsLeaveAgentStatus ==
    [][last'.op \in ReadCalls
         => \A i \in DOMAIN agents :
              /\ HasAgent(agents', agents[i].agent_id)
              /\ AgentOf(agents', agents[i].agent_id).status = agents[i].status
              /\ AgentOf(agents', agents[i].agent_id).current_task = agents[i].current_task]_vars

\* C32: a resync by list_agents leaves tasks_completed and tasks_failed of
\* every agent that was in the roster and is reported by the gateway as they
\* were.
C32_ResyncKeepsCounters ==
    [][(kind = "openclaw" /\ last'.op = "list_agents" /\ last'.ret = "ok"
          /\ reply'.op = "list_agents" /\ reply'.answer = "ok")
         => \A i \in DOMAIN agents :
              (\E k \in DOMAIN reply'.reported : reply'.reported[k] = agents[i].agent_id)
                => /\ HasAgent(agents', agents[i].agent_id)
                   /\ AgentOf(agents', agents[i].agent_id).tasks_completed
                        = agents[i].tasks_completed
                   /\ AgentOf(agents', agents[i].agent_id).tasks_failed
                        = agents[i].tasks_failed]_vars

\* C33: after a resync by list_agents that the gateway answered with 200,
\* every agent that was in the roster before and still is in it is one the
\* gateway reported: the others have been pruned.  (Default agents the
\* resync itself registers at the gateway are not in question.)
C33_ResyncPrunes ==
    [][(kind = "openclaw" /\ last'.op = "list_agents" /\ last'.ret = "ok"
          /\ reply'.op = "list_agents" /\ reply'.answer = "ok")
         => \A i \in DOMAIN agents :
              HasAgent(agents', agents[i].agent_id)
                => \E k \in DOMAIN reply'.reported :
                     reply'.reported[k] = agents[i].agent_id]_vars

\* The task stored under tid has a terminal status, or the collection holds
\* no task under tid any more.
Ended(tid) == HasTask(tasks, tid) => TaskOf(tasks, tid).status \in TerminalStatuses

\* C34: under a running event loop, every task of the collection eventually
\* has a terminal status.
C34_TaskEventuallyTerminal ==
    \A n \in 1..MaxTasks : HasTask(tasks, GenId(n)) ~> Ended(GenId(n))

\* The tasks of the collection that are bound to agent id and running.
RunningOn(id) ==
    {i \in DOMAIN tasks : tasks[i].agent_id = id /\ tasks[i].status = "running"}

\* C35: at most one task bound to an agent is running, and none is running
\* on an agent whose status is idle.
C35_OneRunningTaskPerAgent ==
    \A i \in DOMAIN agents :
        /\ Cardinality(RunningOn(agents[i].agent_id)) <= 1
        /\ agents[i].status = "idle" => RunningOn(agents[i].agent_id) = {}

\* C36: the current_task of an agent is a task of the collection that is
\* bound to the agent and running.
C36_CurrentTaskIsRunning ==
    \A i \in DOMAIN agents :
        agents[i].current_task # None
          => /\ HasTask(tasks, agents[i].current_task)
             /\ TaskOf(tasks, agents[i].current_task).agent_id = agents[i].agent_id
             /\ TaskOf(tasks, agents[i].current_task).status = "running"

\* C37: the step that ends the execution unit of a cancelled task leaves
\* tasks_completed and tasks_failed of every agent as they were.
C37_CancelledTaskNotCounted ==
    [][\A u \in DOMAIN units :
         (/\ units[u].pc = "awaiting"
          /\ units'[u].pc = "done"
          /\ units[u].tref
          /\ HasTask(tasks, units[u].task_id)
          /\ TaskOf(tasks, units[u].task_id).status = "cancelled")
           => \A i \in DOMAIN agents :
                HasAgent(agents', agents[i].agent_id)
                  => /\ AgentOf(agents', agents[i].agent_id).tasks_completed
                          = agents[i].tasks_completed
                     /\ AgentOf(agents', agents[i].agent_id).tasks_failed
                          = agents[i].tasks_failed]_vars

\* C39: for every task of the collection, completed_at is set exactly when
\* the status is completed, failed or cancelled, and started_at is set when
\* the status is running or completed.
C39_StampsFollowStatus ==
    \A i \in DOMAIN tasks :
        /\ (tasks[i].completed_at # 0) <=> (tasks[i].status \in TerminalStatuses)
        /\ tasks[i].status \in {"running", "completed"} => tasks[i].started_at # 0

\* A provider nobody has initialized since it was built or last shut down.
Closed == ~initialized /\ ~client

\* The step is a step of a coroutine whose provider the service has dropped.
OrphanStep == \E u \in DOMAIN units : ~units[u].own /\ units'[u].pc # units[u].pc

\* C38: once shutdown() has returned, the provider's agent and task
\* collections stay empty until the next create_agent, submit_task or
\* initialize on it, whatever its scheduled and in-flight execution units
\* do; and the units of a provider that AgentService.initialize has replaced
\* never change an agent or a task of the provider installed after it.
C38_ShutdownIsFinal ==
    [][/\ (/\ Closed /\ agents = <<>> /\ tasks = <<>>
           /\ last'.op \notin {"create_agent", "submit_task", "initialize"})
          => (agents' = <<>> /\ tasks' = <<>>)
       /\ OrphanStep => (agents' = agents /\ tasks' = tasks)]_vars

\* C38 witness: a coroutine of a replaced OpenClaw provider has had its POST
\* answered while the new provider lists an agent of the same id.
C38_Witness ==
    /\ last.op = "post"
    /\ \E u \in DOMAIN units :
         /\ ~units[u].own
         /\ last.arg = ToString(u)
         /\ units[u].pc = "done"
         /\ HasAgent(agents, units[u].agent_id)

\* C38 witness: a provider that was shut down with a unit in flight has seen
\* that unit end.
C38_WitnessSameProvider ==
    /\ Closed /\ started /\ agents = <<>> /\ tasks = <<>>
    /\ \E u \in DOMAIN units : units[u].own /\ units[u].pc = "done" /\ units[u].begun # 0
    /\ last.op \in {"post", "none"}

====
